---- MODULE Spec2Model ----
(***************************************************************************)
(* printfix: the fix-orchestration control loop.                           *)
(*                                                                         *)
(* The module models these parts of the program, each with its own         *)
(* variables and its own specification:                                    *)
(*   SpecStop   should_stop, the convergence detector (a pure function)    *)
(*   SpecLoop   run_fix_loop, the diagnose -> plan -> execute loop         *)
(*   SpecExec   execute_fix / execute_plan, the fix executor               *)
(*   SpecJobs   the worker tasks and the API triggers of one job           *)
(*   SpecRate   RateLimiter.check on one key                               *)
(*   SpecRetry  with_retry, the retry helper with exponential backoff      *)
(*   SpecStore  JobStateManager on one job's record, the clock standing    *)
(*   SpecExpiry JobStateManager on one job's record, the clock running     *)
(*   SpecFix    the fix_document task from its first to its last write     *)
(*   SpecPlan   plan_fixes_rule_based called repeatedly in one process      *)
(*   SpecPlanOrder plan_fixes_rule_based on plans that mix the tool kinds     *)
(*   SpecPlanAI plan_fixes with the AI planner and its rule-based fallback  *)
(*   SpecFallback the fix loop with its fallback decisions written down     *)
(*   SpecLog    record_fix writing fixes.json, step by step, two writers    *)
(*   SpecFailed the fix loop with its failed-issue-type sets written down    *)
(*   SpecRender execute_fix on the two files of a job, with its re-render    *)
(*   SpecPipeline the status writes of the three tasks on their normal path  *)
(* A part's actions leave the variables of the other parts unchanged.      *)
(***************************************************************************)
EXTENDS Integers, Sequences, FiniteSets, TLC

\* ------------------------------------------------------------------------
\* Bounds of the model
\* ------------------------------------------------------------------------

\* last value of the clock in SpecRate
MaxTime == 3
\* longest history handed to should_stop in SpecStop
MaxHistory == 2
\* largest critical_after count drawn in SpecStop
MaxCritical == 1
\* largest fixes_applied count drawn in SpecStop
MaxApplied == 1

\* ------------------------------------------------------------------------
\* Program constants
\* ------------------------------------------------------------------------

\* config.py:55, the number of tasks the worker runs at a time
WORKER_CONCURRENCY == 2

\* EFFORT_CONFIGS[...].max_fix_iterations
QUICK_MAX_FIX_ITERATIONS == 1
STANDARD_MAX_FIX_ITERATIONS == 3
THOROUGH_MAX_FIX_ITERATIONS == 5

EffortLevels == {"quick", "standard", "thorough"}

max_fix_iterations(effort) ==
    CASE effort = "quick" -> QUICK_MAX_FIX_ITERATIONS
      [] effort = "standard" -> STANDARD_MAX_FIX_ITERATIONS
      [] effort = "thorough" -> THOROUGH_MAX_FIX_ITERATIONS

VARIABLES
    \* SpecStop: the arguments and the results of should_stop
    cs_states,      \* the history, a sequence of ConvergenceState records
    cs_verdicts,    \* per prefix of cs_states: should_stop's result for each
                    \* (max_iterations, fallback_available)
    \* SpecLoop: one run of run_fix_loop
    lp_pc,          \* position: "start", "plan", "execute", "rediagnose",
                    \*           "returned", "raised"
    lp_effort,      \* job["effort"]
    lp_file_type,   \* job["file_type"]
    lp_iteration,   \* the for-loop variable
    lp_diagnosis,   \* diagnosis.summary
    lp_initial,     \* initial_issues, initial_critical
    lp_history,     \* convergence_history
    lp_totals,      \* total_applied, total_failed, any_fallback_used
    lp_cumulative,  \* cumulative_failed_issue_types
    lp_plan,        \* plan.actions of this iteration
    lp_exec,        \* what execute_plan returned in this iteration
    lp_result,      \* the OrchestrationResult returned, or NoResult
    \* SpecExec: one run of execute_plan
    ex_pc,          \* "idle", "run" (between two actions), "returned", "raised"
    ex_plan,        \* the actions handed to execute_plan
    ex_index,       \* position of the next action in ex_plan
    ex_doc,         \* content of the document file the tools work on
    ex_backup,      \* content of the .bak file, or NoFile
    ex_pre,         \* ex_doc when the latest execute_fix was entered
    ex_env,         \* how the tool and the storage behaved in the latest call
    ex_results,     \* the FixResult every execute_fix call returned
    ex_log,         \* fixes.json, the results record_fix appended
    ex_out,         \* what execute_plan returned, or NoExec
    ex_renders,     \* positions in ex_plan of the actions re_render_job was
                    \*           called for, one entry per call
    \* SpecJobs: one job, the task queue and the worker
    jb_status,      \* the status field of the job's Redis hash
    jb_queue,       \* printfix:tasks, the task names enqueued for the job
    jb_tasks,       \* per worker slot: the task it runs and its position
    jb_triggers,    \* number of API requests made for the job
    jb_api,         \* the latest API request: its handler, the status it read
                    \*           and whether it was accepted (not answered 409)
    \* SpecRate: RateLimiter.check on one key
    rl_limit,       \* the limit argument of the calls
    rl_now,         \* the clock, what time.time() returns
    rl_window,      \* the sorted set: its members (member = score = timestamp)
    rl_pending,     \* per timestamp: rejected calls that have not yet sent zrem
    rl_admitted,    \* per timestamp: calls that returned allowed = true
    rl_requests,    \* number of calls made
    rl_last,        \* the latest call: its result and what it found
    \* SpecRetry: one call of with_retry
    rt_pc,          \* "idle", "call" (about to await fn), "sleep", "returned",
                    \*           "raised"
    rt_max_retries, \* the max_retries argument
    rt_max_delay,   \* the max_delay argument
    rt_retryable,   \* the retryable argument, a set of exception types
    rt_attempt,     \* the for-loop variable
    rt_calls,       \* what every await of fn did: returned a value or raised
    rt_sleeps,      \* the delays handed to asyncio.sleep
    rt_last_exc,    \* last_exc
    rt_out,          \* what with_retry returned or raised, or NoOutcome
    \* SpecStore: JobStateManager on the Redis key of one job
    st_hash,        \* the hash at printfix:job:{job_id}; no field = no key
    st_expiry,      \* the time the key expires at, or NoExpiry
    st_now,         \* the clock
    st_statuses,    \* the new_status arguments the set_state calls draw from
    st_written,     \* the time of the latest hset on the key, or Never
    st_calls,       \* per caller: the JobStateManager call it is inside
    st_ncalls,      \* number of calls started
    st_log,         \* the transitions logger.warning reported
    st_last,         \* the latest set_state that returned, or NoCall
    st_deleted,      \* delete_job removed the record and create_job has not
                     \* been called since
    \* SpecFix: one run of the fix_document task
    fx_pc,          \* "idle", "start", "load", "loop", "stored", "verify",
                    \*           "returned", "raised"
    fx_hash,        \* the job's Redis hash; no field = no key
    fx_files,       \* whether the job directory and its diagnosis.json exist
    fx_missing,     \* whether the task found no job record when it started
    fx_initial,     \* summary of the diagnosis run_fix_loop loaded
    fx_final,       \* summary of the diagnosis the loop ended with
    fx_applied,     \* result.total_fixes_applied
    fx_confidence,  \* verification.confidence.final_score in tenths, or
                    \*           NoScore
    fx_exc,          \* the exception the except clause caught, or NoFailure
    pl_args,        \* planner: the arguments of the planning step under study
    pl_font,        \* planner: params["from_font"] of the replace_font template
    pl_plans,       \* planner: the plans plan_fixes_rule_based returned for pl_args
    pl_pc,          \* planner: where plan_fixes stands in its planning step
    pl_ai,          \* planner: outcomes of the AI requests of this planning step
    pl_out,          \* planner: what plan_fixes returned, NoPlan before it returns
    ob_trace,        \* fix loop observed: per iteration, what was planned and computed
    lg_file,        \* fix log: the list in fixes.json
    lg_before,      \* fix log: fixes.json before the latest write
    lg_pc,          \* fix log: where each writer stands in record_fix
    lg_existing,    \* fix log: the list each writer read
    lg_result,      \* fix log: the FixResult each writer is recording
    lg_count,        \* fix log: the actions each writer has started
    rn_pc,          \* re-render: "idle", "run" (between two actions), "returned"
    rn_file_type,   \* re-render: job["file_type"]
    rn_plan,        \* re-render: the actions handed to execute_plan
    rn_index,       \* re-render: position of the next action in rn_plan
    rn_original,    \* re-render: the file in original/, as the tools that
                    \*           have changed it
    rn_pdf,         \* re-render: pdf/reference.pdf, as the state of the file
                    \*           it was converted from and the tools that have
                    \*           changed it since
    rn_results,      \* re-render: the FixResult of every execute_fix call
    pp_task,        \* pipeline: the task the worker runs for the job, or "none"
    pp_site,        \* pipeline: the set_state call the task made last, or
                    \*           "entry" before its first
    pp_status,      \* pipeline: the status field of the job's record
    pp_writes,      \* pipeline: every set_state call made: its call site, the
                    \*           status it found and the status it wrote
    pp_warnings,    \* pipeline: the transitions logger.warning reported
    pp_fixes        \* pipeline: the record_fix calls of the fix task

stopVars == <<cs_states, cs_verdicts>>

loopVars == <<lp_pc, lp_effort, lp_file_type, lp_iteration, lp_diagnosis,
              lp_initial, lp_history, lp_totals, lp_cumulative, lp_plan,
              lp_exec, lp_result>>

execVars == <<ex_pc, ex_plan, ex_index, ex_doc, ex_backup, ex_pre, ex_env,
              ex_results, ex_log, ex_out, ex_renders>>

jobVars == <<jb_status, jb_queue, jb_tasks, jb_triggers, jb_api>>

rateVars == <<rl_limit, rl_now, rl_window, rl_pending, rl_admitted,
              rl_requests, rl_last>>

retryVars == <<rt_pc, rt_max_retries, rt_max_delay, rt_retryable, rt_attempt,
               rt_calls, rt_sleeps, rt_last_exc, rt_out>>

storeVars == <<st_hash, st_expiry, st_now, st_statuses, st_written, st_calls,
               st_ncalls, st_log, st_last, st_deleted>>

fixVars == <<fx_pc, fx_hash, fx_files, fx_missing, fx_initial, fx_final,
             fx_applied, fx_confidence, fx_exc>>

planVars == <<pl_args, pl_font, pl_plans, pl_pc, pl_ai, pl_out>>

obsVars == <<ob_trace>>

logVars == <<lg_file, lg_before, lg_pc, lg_existing, lg_result, lg_count>>

renderVars == <<rn_pc, rn_file_type, rn_plan, rn_index, rn_original, rn_pdf, rn_results>>

pipeVars == <<pp_task, pp_site, pp_status, pp_writes, pp_warnings, pp_fixes>>

vars == <<stopVars, loopVars, execVars, jobVars, rateVars, retryVars, storeVars, fixVars, planVars, obsVars, logVars, renderVars, pipeVars>>

\* What the actions of one part leave unchanged.
notStopVars == <<loopVars, execVars, jobVars, rateVars, retryVars, storeVars, fixVars, planVars, obsVars, logVars, renderVars, pipeVars>>
notLoopVars == <<stopVars, execVars, jobVars, rateVars, retryVars, storeVars, fixVars, planVars, obsVars, logVars, renderVars, pipeVars>>
notExecVars == <<stopVars, loopVars, jobVars, rateVars, retryVars, storeVars, fixVars, planVars, obsVars, logVars, renderVars, pipeVars>>
notJobVars == <<stopVars, loopVars, execVars, rateVars, retryVars, storeVars, fixVars, planVars, obsVars, logVars, renderVars, pipeVars>>
notRateVars == <<stopVars, loopVars, execVars, jobVars, retryVars, storeVars, fixVars, planVars, obsVars, logVars, renderVars, pipeVars>>
notRetryVars == <<stopVars, loopVars, execVars, jobVars, rateVars, storeVars, fixVars, planVars, obsVars, logVars, renderVars, pipeVars>>
notStoreVars == <<stopVars, loopVars, execVars, jobVars, rateVars, retryVars, fixVars, planVars, obsVars, logVars, renderVars, pipeVars>>
notFixVars == <<stopVars, loopVars, execVars, jobVars, rateVars, retryVars, storeVars, planVars, obsVars, logVars, renderVars, pipeVars>>
notPlanVars == <<stopVars, loopVars, execVars, jobVars, rateVars, retryVars, storeVars, fixVars, obsVars, logVars, renderVars, pipeVars>>
notObsVars == <<stopVars, loopVars, execVars, jobVars, rateVars, retryVars, storeVars, fixVars, planVars, logVars, renderVars, pipeVars>>
notLogVars == <<stopVars, loopVars, execVars, jobVars, rateVars, retryVars, storeVars, fixVars, planVars, obsVars, renderVars, pipeVars>>
notRenderVars == <<stopVars, loopVars, execVars, jobVars, rateVars, retryVars, storeVars, fixVars, planVars, obsVars, logVars, pipeVars>>
notPipeVars == <<stopVars, loopVars, execVars, jobVars, rateVars, retryVars, storeVars, fixVars, planVars, obsVars, logVars, renderVars>>

\* ------------------------------------------------------------------------
\* schema/orchestration.py: ConvergenceState
\* ------------------------------------------------------------------------

\* A diagnosis summary: total_issues is the rollup of the three severity counts.
Summary(c, w, i) ==
    [total_issues |-> c + w + i, critical_count |-> c, warning_count |-> w]

ConvergenceState(it, before, after, applied, failed, fb) ==
    [iteration |-> it,
     issues_before |-> before.total_issues,
     issues_after |-> after.total_issues,
     critical_before |-> before.critical_count,
     critical_after |-> after.critical_count,
     warning_before |-> before.warning_count,
     warning_after |-> after.warning_count,
     fixes_applied |-> applied,
     fixes_failed |-> failed,
     used_fallback |-> fb]

\* ------------------------------------------------------------------------
\* orchestration/convergence.py: should_stop
\* ------------------------------------------------------------------------

\* A reason is the text of the message and the numbers formatted into it.
Reason(text, args) == [text |-> text, args |-> args]
NoReason == Reason("", <<>>)

Verdict(stop, reason) == [stop |-> stop, reason |-> reason]

\* Rule 1 (line 33): the iteration budget is used up.
MaxIterationsReached_Strict(current, max_iterations) ==
    current.iteration > max_iterations

MaxIterationsReached(current, max_iterations) ==
    current.iteration >= max_iterations

\* Rule 3 (lines 44-47): every planned fix failed; a fallback keeps the loop going.
AllFixesFailedVerdict_NoGate(fallback_available) ==
    Verdict(TRUE, Reason("all fixes failed, no progress possible", <<>>))

AllFixesFailedVerdict(fallback_available) ==
    IF fallback_available
    THEN Verdict(FALSE, NoReason)
    ELSE Verdict(TRUE, Reason("all fixes failed, no progress possible", <<>>))

\* Rule 2, first half (lines 37-38).
AllIssuesResolved_Before(current) ==
    current.issues_before = 0

AllIssuesResolved(current) ==
    current.issues_after = 0

\* Rule 5 firing on a total that did not go down, whatever the important count.
StallRule_NotDecreased(states, fallback_available) ==
    LET current == states[Len(states)]
        prev == states[Len(states) - 1]
        prev_important == prev.critical_after + prev.warning_after
        curr_important == current.critical_after + current.warning_after
    IN  IF current.issues_after >= prev.issues_after
        THEN IF fallback_available
             THEN Verdict(FALSE, NoReason)
             ELSE Verdict(TRUE, Reason("important issues did not decrease",
                                       <<prev_important, curr_important>>))
        ELSE Verdict(FALSE, NoReason)

\* Rule 5 (lines 57-74): compare with the previous record (Len(states) >= 2).
StallRule(states, fallback_available) ==
    LET current == states[Len(states)]
        prev == states[Len(states) - 1]
        prev_important == prev.critical_after + prev.warning_after
        curr_important == current.critical_after + current.warning_after
        total_increased == current.issues_after > prev.issues_after
        important_decreased == curr_important < prev_important
    IN  IF curr_important >= prev_important
             /\ total_increased /\ ~important_decreased
        THEN IF fallback_available
             THEN Verdict(FALSE, NoReason)
             ELSE Verdict(TRUE, Reason("important issues did not decrease",
                                       <<prev_important, curr_important>>))
        ELSE Verdict(FALSE, NoReason)

\* should_stop with rule 2 ahead of rule 1.
should_stop_ZeroIssuesFirst(states, max_iterations, fallback_available) ==
    IF states = <<>> THEN Verdict(FALSE, NoReason)
    ELSE
    LET current == states[Len(states)] IN
    IF AllIssuesResolved(current)
    THEN Verdict(TRUE, Reason("all issues resolved", <<>>))
    ELSE IF MaxIterationsReached(current, max_iterations)
    THEN Verdict(TRUE, Reason("max iterations reached", <<max_iterations>>))
    ELSE IF current.critical_after = 0 /\ current.warning_after = 0
    THEN Verdict(TRUE, Reason("no critical or warning issues remain", <<>>))
    ELSE IF current.fixes_applied = 0 /\ current.fixes_failed > 0
    THEN AllFixesFailedVerdict(fallback_available)
    ELSE IF current.fixes_applied = 0 /\ current.fixes_failed = 0
    THEN Verdict(TRUE, Reason("no applicable fixes found", <<>>))
    ELSE IF Len(states) >= 2
    THEN StallRule(states, fallback_available)
    ELSE Verdict(FALSE, NoReason)

\* should_stop (convergence.py:27-76)
should_stop(states, max_iterations, fallback_available) ==
    IF states = <<>> THEN Verdict(FALSE, NoReason)
    ELSE
    LET current == states[Len(states)] IN
    IF MaxIterationsReached(current, max_iterations)
    THEN Verdict(TRUE, Reason("max iterations reached", <<max_iterations>>))
    ELSE IF AllIssuesResolved(current)
    THEN Verdict(TRUE, Reason("all issues resolved", <<>>))
    ELSE IF current.critical_after = 0 /\ current.warning_after = 0
    THEN Verdict(TRUE, Reason("no critical or warning issues remain", <<>>))
    ELSE IF current.fixes_applied = 0 /\ current.fixes_failed > 0
    THEN AllFixesFailedVerdict(fallback_available)
    ELSE IF current.fixes_applied = 0 /\ current.fixes_failed = 0
    THEN Verdict(TRUE, Reason("no applicable fixes found", <<>>))
    ELSE IF Len(states) >= 2
    THEN StallRule(states, fallback_available)
    ELSE Verdict(FALSE, NoReason)

\* ------------------------------------------------------------------------
\* Values of the loop's variables while no run is modelled
\* ------------------------------------------------------------------------
NoResult == [iterations |-> 0]
NoExec == [applied |-> 0, failed |-> 0, failed_issue_types |-> {},
           used_fallback |-> FALSE]
NoTotals == [applied |-> 0, failed |-> 0, any_fallback_used |-> FALSE]

LoopIdle ==
    /\ lp_pc = "idle"
    /\ lp_effort = "quick"
    /\ lp_file_type = ".pdf"
    /\ lp_iteration = 0
    /\ lp_diagnosis = Summary(0, 0, 0)
    /\ lp_initial = Summary(0, 0, 0)
    /\ lp_history = <<>>
    /\ lp_totals = NoTotals
    /\ lp_cumulative = {}
    /\ lp_plan = <<>>
    /\ lp_exec = NoExec
    /\ lp_result = NoResult

\* A file's content: which write produced it (0: the uploaded document) and
\* whether validate_file accepts it.
Content(version, valid) == [version |-> version, valid |-> valid]
NoFile == [version |-> -1, valid |-> FALSE]
UploadedDocument == Content(0, TRUE)
NoEnv == [tool |-> "none", wrote |-> "nothing", restore |-> "ok",
          render |-> "ok", record |-> "ok", record_again |-> "ok"]

ExecIdle ==
    /\ ex_pc = "idle"
    /\ ex_plan = <<>>
    /\ ex_index = 1
    /\ ex_doc = UploadedDocument
    /\ ex_backup = NoFile
    /\ ex_pre = UploadedDocument
    /\ ex_env = NoEnv
    /\ ex_results = <<>>
    /\ ex_log = <<>>
    /\ ex_out = NoExec
    /\ ex_renders = <<>>

\* A worker slot that runs no task.
FreeSlot == [task |-> "none", pc |-> "free"]
Slots == 1..WORKER_CONCURRENCY

NoRequest == [handler |-> "none", status |-> "", accepted |-> FALSE]

JobsIdle ==
    /\ jb_status = "uploaded"
    /\ jb_queue = <<>>
    /\ jb_tasks = [s \in Slots |-> FreeSlot]
    /\ jb_triggers = 0
    /\ jb_api = NoRequest

Times == 0..MaxTime
NoCheck == [now |-> -1, allowed |-> TRUE, remaining |-> 0, count |-> 0,
            admitted_before |-> 0]

RateIdle ==
    /\ rl_limit = 1
    /\ rl_now = 0
    /\ rl_window = {}
    /\ rl_pending = [t \in Times |-> 0]
    /\ rl_admitted = [t \in Times |-> 0]
    /\ rl_requests = 0
    /\ rl_last = NoCheck

\* with_retry before it is called.
NoExc == [type |-> "none", attempt |-> -1]

NoOutcome == [kind |-> "none"]

RetryIdle ==
    /\ rt_pc = "idle"
    /\ rt_max_retries = 0
    /\ rt_max_delay = 0
    /\ rt_retryable = {}
    /\ rt_attempt = 0
    /\ rt_calls = <<>>
    /\ rt_sleeps = <<>>
    /\ rt_last_exc = NoExc
    /\ rt_out = NoOutcome

\* The job store before the job is created.
EmptyHash == [f \in {} |-> ""]

NoExpiry == -1

Never == -1

\* The coroutines that call JobStateManager at the same time: API handlers and
\* worker tasks.
Callers == {"caller_1", "caller_2"}

NotCalling == [op |-> "none"]

NoCall == [op |-> "none"]

StoreIdle ==
    /\ st_hash = EmptyHash
    /\ st_expiry = NoExpiry
    /\ st_now = 0
    /\ st_statuses = {}
    /\ st_written = Never
    /\ st_calls = [c \in Callers |-> NotCalling]
    /\ st_ncalls = 0
    /\ st_log = {}
    /\ st_last = NoCall
    /\ st_deleted = FALSE

\* The fix_document task before it is started.
NoScore == -1

NoFailure == [raised |-> FALSE, message |-> ""]

FixIdle ==
    /\ fx_pc = "idle"
    /\ fx_hash = EmptyHash
    /\ fx_files = FALSE
    /\ fx_missing = FALSE
    /\ fx_initial = Summary(0, 0, 0)
    /\ fx_final = Summary(0, 0, 0)
    /\ fx_applied = 0
    /\ fx_confidence = NoScore
    /\ fx_exc = NoFailure

\* The planner part at rest: no arguments, the templates as the module defines
\* them (planner.py:139), nothing planned.
NoArgs == [file_type |-> "none"]

NoPlan == [job_id |-> "none"]

PlanIdle ==
    /\ pl_args = NoArgs
    /\ pl_font = ""
    /\ pl_plans = <<>>
    /\ pl_pc = "idle"
    /\ pl_ai = <<>>
    /\ pl_out = NoPlan

\* Nothing observed of the fix loop.
ObsIdle == ob_trace = <<>>

\* The fix log part at rest: no fixes.json, no writer.
Writers == {"run", "tool"}

NoFixResult == [writer |-> "none"]

LogIdle ==
    /\ lg_file = <<>>
    /\ lg_before = <<>>
    /\ lg_pc = [w \in Writers |-> "idle"]
    /\ lg_existing = [w \in Writers |-> <<>>]
    /\ lg_result = [w \in Writers |-> NoFixResult]
    /\ lg_count = [w \in Writers |-> 0]

\* The re-render part at rest.
Pdf(source, edits) == [source |-> source, edits |-> edits]

RenderIdle ==
    /\ rn_pc = "idle"
    /\ rn_file_type = ".pdf"
    /\ rn_plan = <<>>
    /\ rn_index = 1
    /\ rn_original = {}
    /\ rn_pdf = Pdf({}, {})
    /\ rn_results = <<>>

\* The pipeline part at rest.
PipeIdle ==
    /\ pp_task = "none"
    /\ pp_site = "entry"
    /\ pp_status = "uploaded"
    /\ pp_writes = <<>>
    /\ pp_warnings = <<>>
    /\ pp_fixes = 0

\* ------------------------------------------------------------------------
\* SpecStop: should_stop applied to the histories the orchestrator can build
\* ------------------------------------------------------------------------

\* The values max_iterations takes (the three effort levels).
MaxIterationChoices == {max_fix_iterations(e) : e \in EffortLevels}

\* Severity counts a re-diagnosis reports in SpecStop.
WarningCounts == {0, 1}
InfoCounts == {0, 2}
FailedCounts == {0, 1}

StopSummaries ==
    {Summary(c, w, i) : c \in 0..MaxCritical, w \in WarningCounts, i \in InfoCounts}

\* The *_before fields of the first record; should_stop reads no *_before field.
StopInitialSummary == Summary(MaxCritical, 1, 1)

\* should_stop for every max_iterations and both values of fallback_available.
VerdictTable(states) ==
    [m \in MaxIterationChoices, fb \in BOOLEAN |-> should_stop(states, m, fb)]

StopIdle ==
    /\ cs_states = <<>>
    /\ cs_verdicts = <<>>

InitStop ==
    /\ PipeIdle
    /\ RenderIdle
    /\ LogIdle
    /\ ObsIdle
    /\ PlanIdle
    /\ FixIdle
    /\ StoreIdle
    /\ RetryIdle
    /\ RateIdle
    /\ StopIdle
    /\ LoopIdle
    /\ ExecIdle
    /\ JobsIdle

\* Append the record of the next iteration, as run_fix_loop does (lines 154-166,
\* iteration = position), and evaluate should_stop on the new history.
StopEvaluate ==
    /\ Len(cs_states) < MaxHistory
    /\ \E after \in StopSummaries, applied \in 0..MaxApplied, failed \in FailedCounts :
         LET n == Len(cs_states)
             before == IF n = 0 THEN StopInitialSummary
                       ELSE Summary(cs_states[n].critical_after,
                                    cs_states[n].warning_after,
                                    cs_states[n].issues_after
                                      - cs_states[n].critical_after
                                      - cs_states[n].warning_after)
             rec == ConvergenceState(n + 1, before, after, applied, failed, FALSE)
         IN  /\ cs_states' = Append(cs_states, rec)
             /\ cs_verdicts' = Append(cs_verdicts, VerdictTable(Append(cs_states, rec)))
    /\ UNCHANGED notStopVars

NextStop == StopEvaluate

SpecStop == InitStop /\ [][NextStop]_vars

\* The last record and the verdict on the whole history.
CsCurrent == cs_states[Len(cs_states)]
CsVerdict(m, fb) == cs_verdicts[Len(cs_verdicts)][m, fb]

\* ------------------------------------------------------------------------
\* C1: whenever the last record's iteration is >= max_iterations, should_stop
\* returns stop = TRUE, whatever the counts and fallback_available are.
\* ------------------------------------------------------------------------
C1_MaxIterationCap ==
    \A m \in MaxIterationChoices, fb \in BOOLEAN :
        (cs_states # <<>> /\ CsCurrent.iteration >= m) => CsVerdict(m, fb).stop

\* The budget is used up in a history that would otherwise continue.
C1_Witness ==
    /\ cs_states # <<>>
    /\ CsCurrent.iteration >= QUICK_MAX_FIX_ITERATIONS
    /\ CsCurrent.critical_after > 0
    /\ CsCurrent.fixes_applied > 0
    /\ CsVerdict(QUICK_MAX_FIX_ITERATIONS, TRUE).stop
    /\ ~CsVerdict(STANDARD_MAX_FIX_ITERATIONS, TRUE).stop

\* ------------------------------------------------------------------------
\* C3: fallback gating of the "all fixes failed" rule.
\* ------------------------------------------------------------------------
CsAllFailed ==
    /\ cs_states # <<>>
    /\ CsCurrent.fixes_applied = 0
    /\ CsCurrent.fixes_failed > 0

\* C3 as stated: with fixes_applied = 0 and fixes_failed > 0 in the last record,
\* should_stop continues when fallback_available and stops when it is not,
\* for every history.
C3_Original ==
    \A m \in MaxIterationChoices, fb \in BOOLEAN :
        CsAllFailed => (CsVerdict(m, fb).stop = ~fb)

\* C3 amended: under the same counts should_stop stops when fallback_available
\* is false; when it is true should_stop continues provided no earlier rule
\* applies (iteration < max_iterations and a critical or warning issue remains).
C3_FallbackGating ==
    \A m \in MaxIterationChoices :
        CsAllFailed =>
            /\ CsVerdict(m, FALSE).stop
            /\ (CsCurrent.iteration < m
                /\ CsCurrent.critical_after + CsCurrent.warning_after > 0)
               => ~CsVerdict(m, TRUE).stop

\* All fixes failed below the budget with an important issue left: the fallback
\* decides.
C3_Witness ==
    /\ CsAllFailed
    /\ CsCurrent.iteration < STANDARD_MAX_FIX_ITERATIONS
    /\ CsCurrent.critical_after + CsCurrent.warning_after > 0
    /\ ~CsVerdict(STANDARD_MAX_FIX_ITERATIONS, TRUE).stop
    /\ CsVerdict(STANDARD_MAX_FIX_ITERATIONS, FALSE).stop

\* ------------------------------------------------------------------------
\* C4: convergence monotonicity.
\* ------------------------------------------------------------------------
AllResolvedVerdict == Verdict(TRUE, Reason("all issues resolved", <<>>))

\* issues_after strictly decreases from record to record and is zero in the last.
CsDecreasesToZero ==
    /\ cs_states # <<>>
    /\ CsCurrent.issues_after = 0
    /\ \A j \in 1..(Len(cs_states) - 1) :
           cs_states[j].issues_after > cs_states[j + 1].issues_after

\* C4 as stated: on such a history should_stop continues on every shorter prefix
\* and stops with "all issues resolved" on the whole history.
C4_Original ==
    \A m \in MaxIterationChoices, fb \in BOOLEAN :
        CsDecreasesToZero =>
            /\ \A j \in 1..(Len(cs_states) - 1) : ~cs_verdicts[j][m, fb].stop
            /\ CsVerdict(m, fb) = AllResolvedVerdict

\* C4 amended: when the history reaches zero at iteration k < max_iterations,
\* should_stop stops with "all issues resolved" on the prefix of length k, and
\* continues on every shorter prefix whose last record still has a critical or
\* warning issue and has fixes_applied > 0 (or fixes_failed > 0 with
\* fallback_available).
C4_Monotonicity ==
    \A m \in MaxIterationChoices, fb \in BOOLEAN :
        (CsDecreasesToZero /\ Len(cs_states) < m) =>
            /\ \A j \in 1..(Len(cs_states) - 1) :
                   ( /\ cs_states[j].critical_after + cs_states[j].warning_after > 0
                     /\ \/ cs_states[j].fixes_applied > 0
                        \/ cs_states[j].fixes_failed > 0 /\ fb )
                   => ~cs_verdicts[j][m, fb].stop
            /\ CsVerdict(m, fb) = AllResolvedVerdict

\* The issues go down to zero in the second iteration, the first one went on.
C4_Witness ==
    /\ CsDecreasesToZero
    /\ Len(cs_states) = 2
    /\ cs_states[1].critical_after > 0
    /\ cs_states[1].fixes_applied > 0
    /\ ~cs_verdicts[1][STANDARD_MAX_FIX_ITERATIONS, FALSE].stop
    /\ CsVerdict(STANDARD_MAX_FIX_ITERATIONS, FALSE) = AllResolvedVerdict

\* ------------------------------------------------------------------------
\* orchestration/planner.py, orchestration/executor.py: what the loop uses
\* ------------------------------------------------------------------------

\* The keys of _DOCX_TO_PDF_FALLBACK.
DOCX_TO_PDF_FALLBACK_KEYS ==
    {"margin_violation", "inconsistent_margins", "clipped_content",
     "text_overflow", "table_overflow", "wrong_orientation", "image_overflow",
     "inconsistent_indent"}

_is_editable_format(file_type) ==
    file_type \in {".docx", ".xlsx", ".pptx", ".odt", ".ods", ".odp"}

FixAction(tool_name, target_issues, is_fallback) ==
    [tool_name |-> tool_name, target_issues |-> target_issues,
     is_fallback |-> is_fallback]

\* The actions plans are made of in the model: a primary tool and the fallback
\* for an issue type with a fallback mapping, a primary tool for one without.
PlanActions ==
    {FixAction("set_margins", {"margin_violation"}, FALSE),
     FixAction("pdf_crop_margins", {"margin_violation"}, TRUE),
     FixAction("adjust_font_size", {"small_font"}, FALSE)}

\* longest plan the planner returns in the model
MaxPlanLen == 2

RECURSIVE SeqsUpTo(_, _)
SeqsUpTo(S, n) ==
    IF n = 0 THEN {<<>>}
    ELSE LET shorter == SeqsUpTo(S, n - 1)
         IN  shorter \cup {Append(q, x) : q \in {r \in shorter : Len(r) = n - 1}, x \in S}

\* plan_fixes is the AI planner or the rule-based one: any list of actions;
\* the model takes the lists without a repeated action (a repeated action
\* only makes the plan longer for the loop).
Plans ==
    {q \in SeqsUpTo(PlanActions, MaxPlanLen) :
        \A i, j \in 1..Len(q) : i # j => q[i] # q[j]}

\* execute_plan collecting the target issues of every failed action
execute_plan_AllFailures(actions, success) ==
    LET idx == 1..Len(actions)
        ok == {i \in idx : success[i]}
    IN  [applied |-> Cardinality(ok),
         failed |-> Len(actions) - Cardinality(ok),
         failed_issue_types |->
             UNION {actions[i].target_issues : i \in idx \ ok},
         used_fallback |-> \E i \in ok : actions[i].is_fallback]

\* execute_plan (executor.py:232-246), given result.success of every action.
execute_plan(actions, success) ==
    LET idx == 1..Len(actions)
        ok == {i \in idx : success[i]}
    IN  [applied |-> Cardinality(ok),
         failed |-> Len(actions) - Cardinality(ok),
         failed_issue_types |->
             UNION {actions[i].target_issues :
                        i \in {j \in idx \ ok : ~actions[j].is_fallback}},
         used_fallback |-> \E i \in ok : actions[i].is_fallback]

\* ------------------------------------------------------------------------
\* orchestration/orchestrator.py: run_fix_loop
\* ------------------------------------------------------------------------

\* _has_untried_fallback without the look at the earlier records
_has_untried_fallback_Retry(failed_issue_types, convergence_history, file_type) ==
    IF ~_is_editable_format(file_type) THEN FALSE
    ELSE IF failed_issue_types = {} THEN FALSE
    ELSE failed_issue_types \cap DOCX_TO_PDF_FALLBACK_KEYS # {}

\* _has_untried_fallback (orchestrator.py:227-253)
_has_untried_fallback(failed_issue_types, convergence_history, file_type) ==
    IF ~_is_editable_format(file_type) THEN FALSE
    ELSE IF failed_issue_types = {} THEN FALSE
    ELSE IF \E k \in 1..Len(convergence_history) : convergence_history[k].used_fallback
    THEN FALSE
    ELSE failed_issue_types \cap DOCX_TO_PDF_FALLBACK_KEYS # {}

\* Summaries the diagnosis provider returns in the model: no issue, info only,
\* and 6 or 10 issues of which one or two are critical or warning.
LoopSummaries ==
    {Summary(0, 0, 0), Summary(0, 0, 1), Summary(1, 0, 5), Summary(1, 1, 8)}

\* Effort levels of the jobs in the model.
LoopEfforts == {"quick", "standard"}
LoopFileTypes == {".docx", ".pdf"}

LoopMax == max_fix_iterations(lp_effort)

InitLoop ==
    /\ PipeIdle
    /\ RenderIdle
    /\ LogIdle
    /\ ObsIdle
    /\ PlanIdle
    /\ FixIdle
    /\ StoreIdle
    /\ RetryIdle
    /\ RateIdle
    /\ StopIdle
    /\ ExecIdle
    /\ JobsIdle
    /\ lp_pc = "start"
    /\ lp_effort \in LoopEfforts
    /\ lp_file_type \in LoopFileTypes
    /\ lp_iteration = 0
    /\ lp_diagnosis = Summary(0, 0, 0)
    /\ lp_initial = Summary(0, 0, 0)
    /\ lp_history = <<>>
    /\ lp_totals = NoTotals
    /\ lp_cumulative = {}
    /\ lp_plan = <<>>
    /\ lp_exec = NoExec
    /\ lp_result = NoResult

\* Lines 40-74: the job and its diagnosis are loaded, the loop starts.
LoopStart ==
    /\ lp_pc = "start"
    /\ \E d \in LoopSummaries :
         /\ lp_diagnosis' = d
         /\ lp_initial' = d
    /\ lp_iteration' = 1
    /\ lp_pc' = "plan"
    /\ UNCHANGED <<lp_effort, lp_file_type, lp_history, lp_totals,
                   lp_cumulative, lp_plan, lp_exec, lp_result>>
    /\ UNCHANGED notLoopVars

\* Lines 41-42, 259-260: no job record, or no diagnosis on disk.
LoopStartRaises ==
    /\ lp_pc = "start"
    /\ lp_pc' = "raised"
    /\ UNCHANGED <<lp_effort, lp_file_type, lp_iteration, lp_diagnosis,
                   lp_initial, lp_history, lp_totals, lp_cumulative, lp_plan,
                   lp_exec, lp_result>>
    /\ UNCHANGED notLoopVars

\* Lines 206-212: the stop reason of the result.
StopReason(history, max_iterations, converged) ==
    IF history[Len(history)].iteration >= max_iterations /\ ~converged
    THEN Reason("max iterations reached", <<>>)
    ELSE IF converged THEN Reason("print-ready", <<>>)
    ELSE should_stop(history, max_iterations, FALSE).reason

\* Line 197: iterations = len(convergence_history).
ResultIterations_LoopVariable(history, iteration) == iteration - 1

ResultIterations(history, iteration) == Len(history)

\* Lines 188-224: the result built after the loop has ended.
OrchestrationResult(history, iteration, diagnosis, initial, totals, max_iterations) ==
    LET converged == diagnosis.critical_count = 0 /\ diagnosis.warning_count = 0
    IN  [iterations |-> ResultIterations(history, iteration),
         total_fixes_applied |-> totals.applied,
         total_fixes_failed |-> totals.failed,
         initial_issues |-> initial.total_issues,
         final_issues |-> diagnosis.total_issues,
         initial_critical |-> initial.critical_count,
         final_critical |-> diagnosis.critical_count,
         converged |-> converged,
         used_fallback |-> totals.any_fallback_used,
         stop_reason |-> StopReason(history, max_iterations, converged)]

\* Lines 90-98 and 116-122: a plan with actions.
LoopPlanStep ==
    /\ lp_pc = "plan"
    /\ \E plan \in Plans \ {<<>>} : lp_plan' = plan
    /\ lp_pc' = "execute"
    /\ UNCHANGED <<lp_effort, lp_file_type, lp_iteration, lp_diagnosis,
                   lp_initial, lp_history, lp_totals, lp_cumulative, lp_exec,
                   lp_result>>

LoopPlan ==
    /\ LoopPlanStep
    /\ UNCHANGED notLoopVars

\* The record of an empty plan counting a failed fix
EmptyPlanState_Failed(iteration, diagnosis) ==
    ConvergenceState(iteration, diagnosis, diagnosis, 0, 1, FALSE)

\* Lines 102-112: the record of an iteration whose plan has no action.
EmptyPlanState(iteration, diagnosis) ==
    ConvergenceState(iteration, diagnosis, diagnosis, 0, 0, FALSE)

\* Lines 100-114 and 188-224: an empty plan ends the loop with a zero-fix
\* record; the result is returned.
LoopEmptyPlan ==
    /\ lp_pc = "plan"
    /\ lp_plan' = <<>>
    /\ LET history == Append(lp_history, EmptyPlanState(lp_iteration, lp_diagnosis))
       IN  /\ lp_history' = history
           /\ lp_result' = OrchestrationResult(history, lp_iteration, lp_diagnosis,
                                               lp_initial, lp_totals, LoopMax)
    /\ lp_pc' = "returned"
    /\ UNCHANGED <<lp_effort, lp_file_type, lp_iteration, lp_diagnosis,
                   lp_initial, lp_totals, lp_cumulative, lp_exec>>
    /\ UNCHANGED notLoopVars

\* Lines 125-132: execute_plan with the given result.success of the actions.
LoopExecuteStep(success) ==
    /\ lp_pc = "execute"
    /\ LET r == execute_plan(lp_plan, success)
       IN  /\ lp_exec' = r
           /\ lp_totals' =
                [applied |-> lp_totals.applied + r.applied,
                 failed |-> lp_totals.failed + r.failed,
                 any_fallback_used |->
                     lp_totals.any_fallback_used \/ r.used_fallback]
           /\ lp_cumulative' = lp_cumulative \cup r.failed_issue_types
    /\ lp_plan' = <<>>
    /\ lp_pc' = "rediagnose"
    /\ UNCHANGED <<lp_effort, lp_file_type, lp_iteration, lp_diagnosis,
                   lp_initial, lp_history, lp_result>>

\* Every action succeeding or failing.
LoopExecute ==
    /\ \E success \in [1..Len(lp_plan) -> BOOLEAN] : LoopExecuteStep(success)
    /\ UNCHANGED notLoopVars

\* The for statement of line 74 (only called with iteration < max).
NextIteration(iteration) == iteration + 1

\* Lines 141-186: re-diagnose, record the iteration, ask should_stop; on a stop
\* (or with the range of line 74 used up) lines 188-224 return the result.
LoopReDiagnoseStep ==
    /\ lp_pc = "rediagnose"
    /\ \E d \in LoopSummaries :
         LET state == ConvergenceState(lp_iteration, lp_diagnosis, d,
                                       lp_exec.applied, lp_exec.failed,
                                       lp_exec.used_fallback)
             history == Append(lp_history, state)
             fallback_available ==
                 _has_untried_fallback(lp_cumulative, history, lp_file_type)
             v == should_stop(history, LoopMax, fallback_available)
         IN  /\ lp_diagnosis' = d
             /\ lp_history' = history
             /\ IF v.stop \/ lp_iteration >= LoopMax
                THEN /\ lp_pc' = "returned"
                     /\ lp_iteration' = lp_iteration
                     /\ lp_result' = OrchestrationResult(history, lp_iteration, d,
                                                         lp_initial, lp_totals, LoopMax)
                ELSE /\ lp_pc' = "plan"
                     /\ lp_iteration' = NextIteration(lp_iteration)
                     /\ lp_result' = lp_result
    /\ lp_exec' = NoExec
    /\ lp_plan' = <<>>
    /\ UNCHANGED <<lp_effort, lp_file_type, lp_initial, lp_totals,
                   lp_cumulative>>

LoopReDiagnose ==
    /\ LoopReDiagnoseStep
    /\ UNCHANGED notLoopVars

\* Lines 279-281: the job record is gone when the loop re-diagnoses.
LoopReDiagnoseRaises ==
    /\ lp_pc = "rediagnose"
    /\ lp_pc' = "raised"
    /\ UNCHANGED <<lp_effort, lp_file_type, lp_iteration, lp_diagnosis,
                   lp_initial, lp_history, lp_totals, lp_cumulative, lp_plan,
                   lp_exec, lp_result>>
    /\ UNCHANGED notLoopVars

NextLoop ==
    \/ LoopStart
    \/ LoopStartRaises
    \/ LoopPlan
    \/ LoopEmptyPlan
    \/ LoopExecute
    \/ LoopReDiagnose
    \/ LoopReDiagnoseRaises

SpecLoop == InitLoop /\ [][NextLoop]_vars

\* The loop is one sequential coroutine: a step that can be taken is taken.
SpecLoopFair == SpecLoop /\ WF_vars(NextLoop)

\* ------------------------------------------------------------------------
\* C2: with max_fix_iterations = 3, a loop whose total goes from 10 to 6 in
\* iteration 1 and stays at 6 after iteration 2, critical or warning issues
\* remaining and fixes applied in both iterations, stops after iteration 2
\* with the stalled-progress reason; it plans iteration 3 only when a fallback
\* is available and untried.
\* ------------------------------------------------------------------------
C2_Scenario ==
    /\ LoopMax = 3
    /\ Len(lp_history) = 2
    /\ lp_history[1].issues_before = 10
    /\ lp_history[1].issues_after = 6
    /\ lp_history[2].issues_after = 6
    /\ lp_history[2].critical_after + lp_history[2].warning_after > 0
    /\ lp_history[1].fixes_applied > 0
    /\ lp_history[2].fixes_applied > 0

LoopTerminated == lp_pc \in {"returned", "raised"}

LoopHistoryShape ==
    /\ Len(lp_history) >= 1
    /\ Len(lp_history) <= LoopMax
    /\ \A k \in 1..Len(lp_history) : lp_history[k].iteration = k
    /\ lp_result.iterations = Len(lp_history)

C7_Terminates ==
    /\ <>LoopTerminated
    /\ [](lp_pc = "returned" => LoopHistoryShape)
    /\ [](Len(lp_history) <= LoopMax /\ lp_iteration <= LoopMax)

\* A run that used its whole budget of three iterations and returned.
C7_Witness ==
    /\ lp_pc = "returned"
    /\ LoopMax = STANDARD_MAX_FIX_ITERATIONS
    /\ Len(lp_history) = STANDARD_MAX_FIX_ITERATIONS
    /\ lp_result.iterations = STANDARD_MAX_FIX_ITERATIONS

\* ------------------------------------------------------------------------
\* C33: when the planner returns an empty plan in iteration i, the loop ends
\* in that iteration without calling the executor or re-running diagnosis,
\* after appending one record with fixes_applied = 0, fixes_failed = 0 and
\* the after-counts equal to the before-counts.
\* ------------------------------------------------------------------------

\* The step in which plan_fixes returned a plan without actions.
EmptyPlanReturned == lp_pc = "plan" /\ lp_pc' # "plan" /\ lp_plan' = <<>>

C33_EmptyPlanEndsLoop ==
    [][EmptyPlanReturned =>
          /\ lp_pc' = "returned"
          /\ Len(lp_history') = Len(lp_history) + 1
          /\ SubSeq(lp_history', 1, Len(lp_history)) = lp_history
          /\ LET state == lp_history'[Len(lp_history')]
             IN  /\ state.iteration = lp_iteration
                 /\ state.fixes_applied = 0
                 /\ state.fixes_failed = 0
                 /\ state.issues_after = state.issues_before
                 /\ state.critical_after = state.critical_before
                 /\ state.warning_after = state.warning_before
                 /\ state.issues_before = lp_diagnosis.total_issues
          /\ lp_exec' = NoExec
          /\ lp_totals' = lp_totals
          /\ lp_cumulative' = lp_cumulative
          /\ lp_diagnosis' = lp_diagnosis
          /\ lp_iteration' = lp_iteration
          /\ lp_result'.iterations = Len(lp_history')]_vars

\* The second iteration found nothing to plan after the first one had
\* applied a fix: two records, the second a zero-fix record.
C33_Witness ==
    /\ lp_pc = "returned"
    /\ Len(lp_history) = 2
    /\ lp_history[1].fixes_applied > 0
    /\ lp_history[2].fixes_applied = 0
    /\ lp_history[2].fixes_failed = 0
    /\ lp_history[2].issues_after = lp_history[2].issues_before
    /\ lp_history[2].issues_before > 0
    /\ lp_totals.applied = lp_history[1].fixes_applied

\* ------------------------------------------------------------------------
\* SpecExec: orchestration/executor.py, execute_fix and execute_plan
\*
\* One run of execute_plan on one job.  Every tool of the run works on the
\* same file, ex_doc (a .pdf job: resolve_document and _get_pdf_path both give
\* the reference PDF).
\* ------------------------------------------------------------------------

\* config.py:85
ENABLE_POST_FIX_VALIDATION == TRUE

\* The registered tool names the model's plans use.
TOOL_REGISTRY == {"set_margins", "pdf_crop_margins", "adjust_font_size"}

\* The fields of a FixResult the executor and its callers read.
FixResult(tool_name, success, error) ==
    [tool_name |-> tool_name, success |-> success, error |-> error]

\* Lines 127-134.
UnknownToolResult(tool_name) == FixResult(tool_name, FALSE, "unknown tool")

\* Lines 188-196.
TimeoutResult_Success(tool_name) == FixResult(tool_name, TRUE, "timeout")

TimeoutResult(tool_name) == FixResult(tool_name, FALSE, "timeout")

\* Lines 201-209.
ExceptionResult(tool_name) == FixResult(tool_name, FALSE, "exception")

\* Lines 162-173; the error text carries the details of validate_after_fix.
CorruptOutputResult(tool_name, restored) ==
    FixResult(tool_name, FALSE,
              IF restored THEN "post-fix validation failed: restored from backup"
              ELSE "post-fix validation failed: backup restore FAILED")

\* What a tool itself returns.
ToolSuccessResult(tool_name) == FixResult(tool_name, TRUE, "")
ToolErrorResult(tool_name) == FixResult(tool_name, FALSE, "tool error")

\* integrity.py:407-415.  how = "ok": both calls succeed; "copy_failed": the
\* copy raises OSError; "remove_failed": the copy succeeds, os.remove raises.
restore_from_backup_NoCopy(backup, original, how) ==
    [restored |-> how = "ok", doc |-> original,
     backup |-> IF how = "ok" THEN NoFile ELSE backup]

restore_from_backup(backup, original, how) ==
    [restored |-> how = "ok",
     doc |-> IF how = "copy_failed" THEN original ELSE backup,
     backup |-> IF how = "ok" THEN NoFile ELSE backup]

\* integrity.py:427-452.
validate_after_fix(doc, backup, how) ==
    IF doc.valid
    THEN [valid |-> TRUE, restored |-> FALSE, doc |-> doc, backup |-> NoFile]
    ELSE LET r == restore_from_backup(backup, doc, how)
         IN  [valid |-> FALSE, restored |-> r.restored, doc |-> r.doc,
              backup |-> r.backup]

\* How one call of execute_fix can go.
\*   tool:         "ok" (success, valid output), "corrupt" (success, output
\*                 fails validation), "fail" (returns success = false),
\*                 "raise", "timeout"
\*   wrote:        what a raising or timed-out tool left in the file
\*   restore:      restore_from_backup
\*   render:       re_render_job returns or raises
\*   record:       record_fix in the body returns or raises
\*   record_again: record_fix in an except handler returns or raises
ToolOutcomes == {"ok", "corrupt", "fail", "raise", "timeout"}
WroteOutcomes == {"nothing", "valid", "corrupt"}
RestoreOutcomes == {"ok", "copy_failed", "remove_failed"}
CallOutcomes == {"ok", "raises"}

ExecEnvs ==
    {env \in [tool : ToolOutcomes, wrote : WroteOutcomes,
              restore : RestoreOutcomes, render : CallOutcomes,
              record : CallOutcomes, record_again : CallOutcomes] :
        /\ env.wrote # "nothing" => env.tool \in {"raise", "timeout"}
        /\ env.restore # "ok" => env.tool = "corrupt"
        /\ env.render # "ok" => env.tool = "ok"
        /\ env.record # "ok" =>
               env.tool \in {"corrupt", "fail"} \/ (env.tool = "ok" /\ env.render = "ok")
        /\ env.record_again # "ok" =>
               \/ env.tool \in {"raise", "timeout"}
               \/ env.render # "ok"
               \/ env.record # "ok"}

UnknownToolEnvs ==
    {[NoEnv EXCEPT !.record = r] : r \in CallOutcomes}

\* The file after fix_func ran as the index-th call of the run.
ToolRun(doc, index, env) ==
    CASE env.tool = "ok" -> Content(index, TRUE)
      [] env.tool = "corrupt" -> Content(index, FALSE)
      [] env.tool = "fail" -> doc
      [] OTHER -> CASE env.wrote = "nothing" -> doc
                    [] env.wrote = "valid" -> Content(index, TRUE)
                    [] env.wrote = "corrupt" -> Content(index, FALSE)

\* re_render_job called whatever the post-fix validation found
re_render_reached_Unvalidated(success, valid) == success

\* Lines 163-177: re_render_job is called when result.success holds and the
\* post-fix validation has not returned from execute_fix before.
re_render_reached(success, valid) == success /\ valid

\* Lines 141-186: the try block up to the result it is about to record.
\*   exc:     "none", or the exception that left the block
\*   handled: backup_path is None when the block is left
TryBody(action, index, doc, backup, env) ==
    LET tool == action.tool_name
        backed == IF ENABLE_POST_FIX_VALIDATION THEN doc ELSE backup
        written == ToolRun(doc, index, env)
        unhandled == [exc |-> "none", result |-> ToolErrorResult(tool),
                      doc |-> written, backup |-> backed,
                      handled |-> ~ENABLE_POST_FIX_VALIDATION,
                      rendered |-> re_render_reached(FALSE, written.valid)]
        render == IF env.render = "ok" THEN "none" ELSE "exception"
    IN  CASE env.tool = "timeout" -> [unhandled EXCEPT !.exc = "timeout"]
          [] env.tool = "raise" -> [unhandled EXCEPT !.exc = "exception"]
          [] env.tool = "fail" -> unhandled
          [] OTHER ->
               IF ENABLE_POST_FIX_VALIDATION
               THEN LET check == validate_after_fix(written, backed, env.restore)
                    IN  IF ~check.valid
                        THEN [exc |-> "none",
                              result |-> CorruptOutputResult(tool, check.restored),
                              doc |-> check.doc, backup |-> check.backup,
                              handled |-> TRUE,
                              rendered |-> re_render_reached(TRUE, check.valid)]
                        ELSE [exc |-> render, result |-> ToolSuccessResult(tool),
                              doc |-> check.doc, backup |-> check.backup,
                              handled |-> TRUE,
                              rendered |-> re_render_reached(TRUE, check.valid)]
               ELSE [exc |-> render, result |-> ToolSuccessResult(tool),
                     doc |-> written, backup |-> backup, handled |-> TRUE,
                     rendered |-> re_render_reached(TRUE, TRUE)]

\* Lines 118-217.  raised: the call ends with an exception instead of a
\* result; recorded: what record_fix appended to the fix log.
execute_fix(action, index, doc, backup, env) ==
    LET tool == action.tool_name
    IN  IF tool \notin TOOL_REGISTRY
        THEN [raised |-> env.record # "ok",
              result |-> UnknownToolResult(tool),
              doc |-> doc, backup |-> backup,
              recorded |-> IF env.record = "ok"
                           THEN <<UnknownToolResult(tool)>> ELSE <<>>,
              rendered |-> FALSE]
        ELSE LET b == TryBody(action, index, doc, backup, env)
                 exc == IF b.exc # "none" THEN b.exc
                        ELSE IF env.record = "ok" THEN "none" ELSE "exception"
                 result == CASE exc = "none" -> b.result
                             [] exc = "timeout" -> TimeoutResult(tool)
                             [] OTHER -> ExceptionResult(tool)
                 raised == exc # "none" /\ env.record_again # "ok"
             IN  [raised |-> raised,
                  result |-> result,
                  doc |-> b.doc,
                  backup |-> IF b.handled THEN b.backup ELSE NoFile,
                  recorded |-> IF raised THEN <<>> ELSE <<result>>,
                  rendered |-> b.rendered]

\* Lines 238-245: execute_plan counts one result.
Tally(out, action, result) ==
    IF result.success
    THEN [out EXCEPT !.applied = @ + 1,
                     !.used_fallback = @ \/ action.is_fallback]
    ELSE [out EXCEPT !.failed = @ + 1,
                     !.failed_issue_types =
                         IF action.is_fallback THEN @
                         ELSE @ \cup action.target_issues]

\* The plans handed to execute_plan: the planner's actions and one whose tool
\* is not registered (an AI plan can name any tool).
UnregisteredAction == FixAction("no_such_tool", {"margin_violation"}, FALSE)
ExecActions == PlanActions \cup {UnregisteredAction}

ExecPlans ==
    {q \in SeqsUpTo(ExecActions, MaxPlanLen) :
        /\ q # <<>>
        /\ \A i, j \in 1..Len(q) : i # j => q[i] # q[j]}

InitExec ==
    /\ PipeIdle
    /\ RenderIdle
    /\ LogIdle
    /\ ObsIdle
    /\ PlanIdle
    /\ FixIdle
    /\ StoreIdle
    /\ RetryIdle
    /\ RateIdle
    /\ StopIdle
    /\ LoopIdle
    /\ JobsIdle
    /\ ex_pc = "run"
    /\ ex_plan \in ExecPlans
    /\ ex_index = 1
    /\ ex_doc = UploadedDocument
    /\ ex_backup = NoFile
    /\ ex_pre = UploadedDocument
    /\ ex_env = NoEnv
    /\ ex_results = <<>>
    /\ ex_log = <<>>
    /\ ex_out = NoExec
    /\ ex_renders = <<>>

\* Lines 236-245: the next action of the plan goes through execute_fix.
ExecuteFix ==
    /\ ex_pc = "run"
    /\ ex_index <= Len(ex_plan)
    /\ LET action == ex_plan[ex_index]
       IN  \E env \in (IF action.tool_name \in TOOL_REGISTRY
                       THEN ExecEnvs ELSE UnknownToolEnvs) :
             LET r == execute_fix(action, ex_index, ex_doc, ex_backup, env)
             IN  /\ ex_env' = env
                 /\ ex_pre' = ex_doc
                 /\ ex_doc' = r.doc
                 /\ ex_backup' = r.backup
                 /\ ex_log' = ex_log \o r.recorded
                 /\ ex_renders' = IF r.rendered THEN Append(ex_renders, ex_index)
                                  ELSE ex_renders
                 /\ IF r.raised
                    THEN /\ ex_pc' = "raised"
                         /\ UNCHANGED <<ex_index, ex_results, ex_out>>
                    ELSE /\ ex_pc' = "run"
                         /\ ex_index' = ex_index + 1
                         /\ ex_results' = Append(ex_results, r.result)
                         /\ ex_out' = Tally(ex_out, action, r.result)
    /\ UNCHANGED ex_plan
    /\ UNCHANGED notExecVars

\* Line 246: the plan is exhausted, execute_plan returns its counts.
ExecReturn ==
    /\ ex_pc = "run"
    /\ ex_index > Len(ex_plan)
    /\ ex_pc' = "returned"
    /\ UNCHANGED <<ex_plan, ex_index, ex_doc, ex_backup, ex_pre, ex_env,
                   ex_results, ex_log, ex_out, ex_renders>>
    /\ UNCHANGED notExecVars

NextExec ==
    \/ ExecuteFix
    \/ ExecReturn

SpecExec == InitExec /\ [][NextExec]_vars

\* The latest call of execute_fix has returned its result.
ExecLastReturned == ex_pc # "raised" /\ ex_index > 1
ExecLastResult == ex_results[Len(ex_results)]

\* The tool of the latest call reported success and its output failed the
\* post-fix validation.
ExecValidationFailed == ExecLastReturned /\ ex_env.tool = "corrupt"

ExecLastAction == ex_plan[ex_index - 1]

ExecOneResultPerAction ==
    /\ Len(ex_results) = ex_index - 1
    /\ \A i \in 1..Len(ex_results) : ex_results[i].tool_name = ex_plan[i].tool_name
    /\ ex_out.applied + ex_out.failed = Len(ex_results)
    /\ ex_pc = "returned" => Len(ex_results) = Len(ex_plan)
    /\ (ex_pc = "run" /\ ex_index <= Len(ex_plan)) => ENABLED ExecuteFix

ExecFailuresDegrade ==
    (/\ ExecLastReturned
     /\ \/ ExecLastAction.tool_name \notin TOOL_REGISTRY
        \/ ex_env.tool \in {"raise", "timeout"})
    => ~ExecLastResult.success

\* record_fix raised where no handler catches it.
ExecRecordFixRaised ==
    \/ ex_env.record_again = "raises"
    \/ ex_plan[ex_index].tool_name \notin TOOL_REGISTRY /\ ex_env.record = "raises"

ExecLastIndex == IF ex_pc = "raised" THEN ex_index ELSE ex_index - 1

\* Number of re_render_job calls made for the action at position i.
RendersFor(i) == Cardinality({k \in DOMAIN ex_renders : ex_renders[k] = i})

C32_RenderAfterValidatedSuccess ==
    /\ \A i \in 1..Len(ex_plan) : RendersFor(i) <= 1
    /\ \A k \in DOMAIN ex_renders : ex_renders[k] <= ExecLastIndex
    /\ \A k \in 1..(Len(ex_renders) - 1) : ex_renders[k] < ex_renders[k + 1]
    /\ ExecLastIndex >= 1 =>
           (RendersFor(ExecLastIndex) = 1 <=>
               /\ ex_plan[ExecLastIndex].tool_name \in TOOL_REGISTRY
               /\ ex_env.tool = "ok")
    /\ \A i \in 1..Len(ex_results) :
         /\ ex_results[i].success => RendersFor(i) = 1
         /\ ex_results[i].error \in
                {"tool error", "timeout", "unknown tool",
                 "post-fix validation failed: restored from backup",
                 "post-fix validation failed: backup restore FAILED"}
                => RendersFor(i) = 0

\* The first action was rendered, the second one was rolled back and not
\* rendered, and the plan has returned.
C32_Witness ==
    /\ ex_pc = "returned"
    /\ Len(ex_plan) = 2
    /\ ex_renders = <<1>>
    /\ ex_results[1].success
    /\ ex_results[2].error = "post-fix validation failed: restored from backup"

\* ------------------------------------------------------------------------
\* C36: every action that ends in a failed FixResult (tool reported failure,
\* tool raised, action timed out, or re-render failed after the tool ran)
\* leaves the document at the job's path with its pre-action content: the
\* backup taken before the tool ran makes every failed write reversible, not
\* only the one caught by validation.
\* ------------------------------------------------------------------------
C36_Original ==
    (ExecLastReturned /\ ~ExecLastResult.success) => ex_doc = ex_pre

\* The same for the failures in which the tool is stopped or stops itself:
\* a timeout and an exception of the tool.
C36_TimeoutOrException ==
    (/\ ExecLastReturned
     /\ ex_env.tool \in {"raise", "timeout"}) => ex_doc = ex_pre

\* The same for a failed re-render after a validated tool run.
C36_RenderFailed ==
    (/\ ExecLastReturned
     /\ ex_env.tool = "ok"
     /\ ex_env.render = "raises") => ex_doc = ex_pre

\* ------------------------------------------------------------------------
\* SpecJobs: worker/tasks.py and api/printfix.py on one job
\*
\* The job has been ingested and ingest_document has enqueued its diagnosis
\* (tasks.py:200-214).  The worker runs up to WORKER_CONCURRENCY tasks at a
\* time; a task's steps are its calls of JobStateManager.set_state and of
\* kiq, between which other tasks and API handlers run.
\* ------------------------------------------------------------------------

\* API requests made for the job in the model
MaxTriggers == 2

InitJobs ==
    /\ PipeIdle
    /\ RenderIdle
    /\ LogIdle
    /\ ObsIdle
    /\ PlanIdle
    /\ FixIdle
    /\ StoreIdle
    /\ RetryIdle
    /\ RateIdle
    /\ StopIdle
    /\ LoopIdle
    /\ ExecIdle
    /\ jb_status = "ingested"
    /\ jb_queue = <<"diagnose_document">>
    /\ jb_tasks = [s \in Slots |-> FreeSlot]
    /\ jb_triggers = 0
    /\ jb_api = NoRequest

Running(s, task, pc) == jb_tasks[s] = [task |-> task, pc |-> pc]
Move(s, task, pc) == jb_tasks' = [jb_tasks EXCEPT ![s] = [task |-> task, pc |-> pc]]
Free(s) == jb_tasks' = [jb_tasks EXCEPT ![s] = FreeSlot]

\* JobStateManager.set_state (job_state.py:76-104): the status is overwritten,
\* whatever it was.
set_state(new_status) == jb_status' = new_status

\* The worker takes the oldest task of the list queue.
WorkerTake(s) ==
    /\ jb_tasks[s] = FreeSlot
    /\ jb_queue # <<>>
    /\ Move(s, Head(jb_queue), "start")
    /\ jb_queue' = Tail(jb_queue)
    /\ UNCHANGED <<jb_status, jb_triggers>>
    /\ UNCHANGED jb_api
    /\ UNCHANGED notJobVars

\* tasks.py:239.
DiagnoseBegin(s) ==
    /\ Running(s, "diagnose_document", "start")
    /\ set_state("diagnosing")
    /\ Move(s, "diagnose_document", "analyse")
    /\ UNCHANGED <<jb_queue, jb_triggers>>
    /\ UNCHANGED jb_api
    /\ UNCHANGED notJobVars

\* tasks.py:253-261: cache hit, the diagnosis is stored and the task returns.
DiagnoseCached(s) ==
    /\ Running(s, "diagnose_document", "analyse")
    /\ set_state("diagnosed")
    /\ Free(s)
    /\ UNCHANGED <<jb_queue, jb_triggers>>
    /\ UNCHANGED jb_api
    /\ UNCHANGED notJobVars

\* tasks.py:263-313: the analysis ran and _store_diagnosis stores its result.
DiagnoseStore(s) ==
    /\ Running(s, "diagnose_document", "analyse")
    /\ set_state("diagnosed")
    /\ \E has_issues \in BOOLEAN :
         Move(s, "diagnose_document", IF has_issues THEN "enqueue" ELSE "clean")
    /\ UNCHANGED <<jb_queue, jb_triggers>>
    /\ UNCHANGED jb_api
    /\ UNCHANGED notJobVars

\* tasks.py:323-324.
DiagnoseEnqueueFix(s) ==
    /\ Running(s, "diagnose_document", "enqueue")
    /\ jb_queue' = Append(jb_queue, "fix_document")
    /\ Free(s)
    /\ UNCHANGED <<jb_status, jb_triggers>>
    /\ UNCHANGED jb_api
    /\ UNCHANGED notJobVars

\* tasks.py:325-337: no issue, three set_state calls.
DiagnoseClean(s) ==
    \/ /\ Running(s, "diagnose_document", "clean")
       /\ set_state("fixing")
       /\ Move(s, "diagnose_document", "clean_verifying")
       /\ UNCHANGED <<jb_queue, jb_triggers>>
       /\ UNCHANGED jb_api
       /\ UNCHANGED notJobVars
    \/ /\ Running(s, "diagnose_document", "clean_verifying")
       /\ set_state("verifying")
       /\ Move(s, "diagnose_document", "clean_done")
       /\ UNCHANGED <<jb_queue, jb_triggers>>
       /\ UNCHANGED jb_api
       /\ UNCHANGED notJobVars
    \/ /\ Running(s, "diagnose_document", "clean_done")
       /\ set_state("done")
       /\ Free(s)
       /\ UNCHANGED <<jb_queue, jb_triggers>>
       /\ UNCHANGED jb_api
       /\ UNCHANGED notJobVars

\* tasks.py:345-348: an exception anywhere after the first set_state.
DiagnoseFails(s) ==
    /\ jb_tasks[s].task = "diagnose_document"
    /\ jb_tasks[s].pc # "start"
    /\ set_state("failed")
    /\ Free(s)
    /\ UNCHANGED <<jb_queue, jb_triggers>>
    /\ UNCHANGED jb_api
    /\ UNCHANGED notJobVars

\* tasks.py:53.
FixBegin(s) ==
    /\ Running(s, "fix_document", "start")
    /\ set_state("fixing")
    /\ Move(s, "fix_document", "loop")
    /\ UNCHANGED <<jb_queue, jb_triggers>>
    /\ UNCHANGED jb_api
    /\ UNCHANGED notJobVars

\* run_fix_loop rewrites the document and sets "fixing" again: record_fix
\* (fixes/common.py:101-108), re_render_job (68-77), _store_diagnosis
\* (orchestrator.py:344-350).
FixLoopStep(s) ==
    /\ Running(s, "fix_document", "loop")
    /\ set_state("fixing")
    /\ UNCHANGED <<jb_queue, jb_tasks, jb_triggers>>
    /\ UNCHANGED jb_api
    /\ UNCHANGED notJobVars

\* tasks.py:57-76: run_fix_loop returned.
FixLoopReturns(s) ==
    /\ Running(s, "fix_document", "loop")
    /\ set_state("verifying")
    /\ Move(s, "fix_document", "verify")
    /\ UNCHANGED <<jb_queue, jb_triggers>>
    /\ UNCHANGED jb_api
    /\ UNCHANGED notJobVars

\* tasks.py:80-105: run_verification returned.
FixVerified(s) ==
    /\ Running(s, "fix_document", "verify")
    /\ \E final_status \in {"done", "needs_review"} : set_state(final_status)
    /\ Free(s)
    /\ UNCHANGED <<jb_queue, jb_triggers>>
    /\ UNCHANGED jb_api
    /\ UNCHANGED notJobVars

\* tasks.py:129-132.
FixFails(s) ==
    /\ jb_tasks[s].task = "fix_document"
    /\ jb_tasks[s].pc # "start"
    /\ set_state("failed")
    /\ Free(s)
    /\ UNCHANGED <<jb_queue, jb_triggers>>
    /\ UNCHANGED jb_api
    /\ UNCHANGED notJobVars

\* Request(handler, accepted): what the handler read and answered.
Request(handler, accepted) ==
    [handler |-> handler, status |-> jb_status, accepted |-> accepted]

trigger_fix_accepts_Done(status) == status \in {"diagnosed", "needs_review", "done"}

\* job["status"] not in ("diagnosed", "needs_review") is answered 409
\* (api/printfix.py:311-316).
trigger_fix_accepts(status) == status \in {"diagnosed", "needs_review"}

\* api/printfix.py:276-290.
trigger_diagnosis ==
    /\ jb_triggers < MaxTriggers
    /\ jb_triggers' = jb_triggers + 1
    /\ IF jb_status \in {"ingested", "diagnosed"}
       THEN jb_queue' = Append(jb_queue, "diagnose_document")
       ELSE jb_queue' = jb_queue
    /\ jb_api' = Request("trigger_diagnosis", jb_status \in {"ingested", "diagnosed"})
    /\ UNCHANGED <<jb_status, jb_tasks>>
    /\ UNCHANGED notJobVars

\* api/printfix.py:304-319.
trigger_fix ==
    /\ jb_triggers < MaxTriggers
    /\ jb_triggers' = jb_triggers + 1
    /\ IF trigger_fix_accepts(jb_status)
       THEN jb_queue' = Append(jb_queue, "fix_document")
       ELSE jb_queue' = jb_queue
    /\ jb_api' = Request("trigger_fix", trigger_fix_accepts(jb_status))
    /\ UNCHANGED <<jb_status, jb_tasks>>
    /\ UNCHANGED notJobVars

\* api/printfix.py:371-389.
approve_job ==
    /\ jb_triggers < MaxTriggers
    /\ jb_triggers' = jb_triggers + 1
    /\ IF jb_status \in {"needs_review", "verifying"}
       THEN set_state("done")
       ELSE jb_status' = jb_status
    /\ jb_api' = Request("approve_job", jb_status \in {"needs_review", "verifying"})
    /\ UNCHANGED <<jb_queue, jb_tasks>>
    /\ UNCHANGED notJobVars

\* api/printfix.py:392-411.
reject_job ==
    /\ jb_triggers < MaxTriggers
    /\ jb_triggers' = jb_triggers + 1
    /\ IF jb_status \in {"done", "needs_review", "verifying"}
       THEN set_state("needs_review")
       ELSE jb_status' = jb_status
    /\ jb_api' = Request("reject_job", jb_status \in {"done", "needs_review", "verifying"})
    /\ UNCHANGED <<jb_queue, jb_tasks>>
    /\ UNCHANGED notJobVars

NextJobs ==
    \/ \E s \in Slots : WorkerTake(s)
    \/ \E s \in Slots : DiagnoseBegin(s)
    \/ \E s \in Slots : DiagnoseCached(s)
    \/ \E s \in Slots : DiagnoseStore(s)
    \/ \E s \in Slots : DiagnoseEnqueueFix(s)
    \/ \E s \in Slots : DiagnoseClean(s)
    \/ \E s \in Slots : DiagnoseFails(s)
    \/ \E s \in Slots : FixBegin(s)
    \/ \E s \in Slots : FixLoopStep(s)
    \/ \E s \in Slots : FixLoopReturns(s)
    \/ \E s \in Slots : FixVerified(s)
    \/ \E s \in Slots : FixFails(s)
    \/ trigger_diagnosis
    \/ trigger_fix
    \/ approve_job
    \/ reject_job

SpecJobs == InitJobs /\ [][NextJobs]_vars

\* ------------------------------------------------------------------------
\* C8: at most one fix loop is active for the job; no sequence of automatic
\* enqueues and API triggers starts a second fix_document run while one is
\* still running.
\* ------------------------------------------------------------------------
ActiveFixLoops ==
    {s \in Slots : jb_tasks[s].task = "fix_document" /\ jb_tasks[s].pc = "loop"}

C8_Original == Cardinality(ActiveFixLoops) <= 1

\* ------------------------------------------------------------------------
\* SpecRate: core/rate_limit.py, RateLimiter.check on one key
\*
\* Time is counted in ticks of the clock, window_seconds too.  A call reads
\* the clock and runs its pipeline (one MULTI/EXEC transaction); a call that
\* is not allowed sends zrem in a second round trip, and other calls run in
\* between.
\* ------------------------------------------------------------------------

\* largest limit argument
MaxLimit == 2
\* the window_seconds argument
WindowSeconds == 2
\* calls of check in one behaviour
MaxRequests == 4
\* rejected calls that can be between their pipeline and their zrem
MaxPending == 2

RECURSIVE SumOver(_, _)
SumOver(f, S) ==
    IF S = {} THEN 0
    ELSE LET t == CHOOSE x \in S : TRUE
         IN  f[t] + SumOver(f, S \ {t})

\* The timestamps t with now - window_seconds < t <= now.
InsideWindow(now) == {t \in Times : t > now - WindowSeconds /\ t <= now}

\* Admitted calls whose timestamp lies inside the window that ends at now.
AdmittedInside(now) == SumOver(rl_admitted, InsideWindow(now))

\* Line 39: zremrangebyscore(key, 0, now - window_seconds).
zremrangebyscore(window, lo, hi) == {m \in window : ~(lo <= m /\ m <= hi)}

\* Line 40: zadd(key, {str(now): now}); equal timestamps are one member.
zadd(window, now) == window \cup {now}

\* Lines 45-47.
Allowed(count, limit) == count <= limit
Remaining(count, limit) == IF limit - count > 0 THEN limit - count ELSE 0

InitRate ==
    /\ PipeIdle
    /\ RenderIdle
    /\ LogIdle
    /\ ObsIdle
    /\ PlanIdle
    /\ FixIdle
    /\ StoreIdle
    /\ RetryIdle
    /\ StopIdle
    /\ LoopIdle
    /\ ExecIdle
    /\ JobsIdle
    /\ rl_limit \in 1..MaxLimit
    /\ rl_now = 0
    /\ rl_window = {}
    /\ rl_pending = [t \in Times |-> 0]
    /\ rl_admitted = [t \in Times |-> 0]
    /\ rl_requests = 0
    /\ rl_last = NoCheck

\* The clock advances.
RateTick ==
    /\ rl_now < MaxTime
    /\ rl_now' = rl_now + 1
    /\ UNCHANGED <<rl_limit, rl_window, rl_pending, rl_admitted, rl_requests,
                   rl_last>>
    /\ UNCHANGED notRateVars

\* Lines 35-47: the clock is read and the pipeline executes.  The expire of
\* line 42 deletes the key window_seconds after the latest call, which removes
\* only members the next call's prune would remove.
RateCheck ==
    /\ rl_requests < MaxRequests
    /\ SumOver(rl_pending, Times) < MaxPending
    /\ LET now == rl_now
           pruned == zremrangebyscore(rl_window, 0, now - WindowSeconds)
           added == zadd(pruned, now)
           count == Cardinality(added)
           allowed == Allowed(count, rl_limit)
       IN  /\ rl_window' = added
           /\ rl_last' = [now |-> now, allowed |-> allowed,
                          remaining |-> Remaining(count, rl_limit),
                          count |-> count,
                          admitted_before |-> AdmittedInside(now)]
           /\ IF allowed
              THEN /\ rl_admitted' = [rl_admitted EXCEPT ![now] = @ + 1]
                   /\ rl_pending' = rl_pending
              ELSE /\ rl_pending' = [rl_pending EXCEPT ![now] = @ + 1]
                   /\ rl_admitted' = rl_admitted
    /\ rl_requests' = rl_requests + 1
    /\ UNCHANGED <<rl_limit, rl_now>>
    /\ UNCHANGED notRateVars

\* Lines 49-51: a rejected call rolls its entry back and returns.
RateZrem ==
    /\ \E t \in Times :
         /\ rl_pending[t] > 0
         /\ rl_pending' = [rl_pending EXCEPT ![t] = @ - 1]
         /\ rl_window' = rl_window \ {t}
    /\ UNCHANGED <<rl_limit, rl_now, rl_admitted, rl_requests, rl_last>>
    /\ UNCHANGED notRateVars

NextRate ==
    \/ RateTick
    \/ RateCheck
    \/ RateZrem

SpecRate == InitRate /\ [][NextRate]_vars

\* ------------------------------------------------------------------------
\* C9: once limit requests have been admitted inside one window, the next
\* request inside that window is disallowed with remaining = 0; once the
\* window has elapsed since those requests, a new request is allowed with
\* remaining = limit - 1.
\* ------------------------------------------------------------------------
C9_Original ==
    rl_last # NoCheck =>
        /\ rl_last.admitted_before >= rl_limit =>
               ~rl_last.allowed /\ rl_last.remaining = 0
        /\ (/\ rl_last.admitted_before = 0
            /\ SumOver(rl_admitted, Times \ {rl_last.now}) >= rl_limit) =>
               rl_last.allowed /\ rl_last.remaining = rl_limit - 1

\* ------------------------------------------------------------------------
\* C10: the prune, insert, count and over-limit removal of one call are one
\* atomic step; no call counts the entry of a request that is being rejected,
\* so a request is disallowed only when limit admitted requests already lie
\* inside the window.
\* ------------------------------------------------------------------------
C10_Original ==
    (rl_last # NoCheck /\ ~rl_last.allowed) =>
        rl_last.admitted_before >= rl_limit

\* ------------------------------------------------------------------------
\* C11: the number of admitted requests whose timestamps lie inside any
\* interval of window_seconds is at most limit, also when requests carry the
\* same timestamp or run concurrently.
\* ------------------------------------------------------------------------
C11_Original ==
    \A t \in Times : AdmittedInside(t) <= rl_limit

\* ------------------------------------------------------------------------
\* SpecRetry: with_retry (src/app/core/retry.py, lines 15-54)
\* ------------------------------------------------------------------------

\* largest max_retries argument drawn
MaxRetries == 3

\* the default of the base_delay argument; no caller passes another value
BASE_DELAY == 1

\* the default of the max_delay argument
MAX_DELAY == 30

\* The exception types fn raises here. CancelledError derives from
\* BaseException only, the others from Exception; ConnectionError is an
\* OSError.
ExcTypes == {"TimeoutError", "ConnectionError", "ValueError", "CancelledError"}

Bases(type) ==
    CASE type = "TimeoutError" -> {"TimeoutError", "OSError", "Exception", "BaseException"}
      [] type = "ConnectionError" -> {"ConnectionError", "OSError", "Exception", "BaseException"}
      [] type = "ValueError" -> {"ValueError", "Exception", "BaseException"}
      [] type = "CancelledError" -> {"CancelledError", "BaseException"}

\* except retryable as exc (line 43): the clause catches an exception whose
\* type is one of the listed types or derives from one.
IsRetryable(type, retryable) == Bases(type) \cap retryable # {}

\* The retryable tuples passed: the default (line 21) and the one the callers
\* pass (planner.py lines 609-614).
RetryableChoices == {{"Exception"}, {"TimeoutError", "ConnectionError", "OSError"}}

\* The max_delay arguments drawn: one the doubling reaches, and the default.
MaxDelayChoices == {BASE_DELAY + 1, MAX_DELAY}

\* The values fn returns.
RetryValues == {"text_a", "text_b"}

RECURSIVE Pow2(_)
Pow2(n) == IF n = 0 THEN 1 ELSE 2 * Pow2(n - 1)

Min(a, b) == IF a <= b THEN a ELSE b

\* the delay without its ceiling
Delay_Uncapped(attempt, max_delay) == BASE_DELAY * Pow2(attempt)

\* delay = min(base_delay * (2 ** attempt), max_delay)   (line 47)
Delay(attempt, max_delay) == Min(BASE_DELAY * Pow2(attempt), max_delay)

\* Every raise of fn makes a new exception object: its type and the attempt
\* that raised it.
Exc(type, attempt) == [type |-> type, attempt |-> attempt]

CallReturned(value) == [kind |-> "ok", value |-> value]

CallRaised(exc) == [kind |-> "error", exc |-> exc]

Returned(value) == [kind |-> "return", value |-> value]

Raised(exc) == [kind |-> "raise", exc |-> exc]

last_exc_KeepFirst(previous, exc) == IF previous = NoExc THEN exc ELSE previous

\* last_exc = exc   (line 44)
last_exc(previous, exc) == exc

InitRetry ==
    /\ PipeIdle
    /\ RenderIdle
    /\ LogIdle
    /\ ObsIdle
    /\ PlanIdle
    /\ FixIdle
    /\ StoreIdle
    /\ RateIdle
    /\ StopIdle
    /\ LoopIdle
    /\ ExecIdle
    /\ JobsIdle
    /\ rt_pc = "call"
    /\ rt_max_retries \in 0..MaxRetries
    /\ rt_max_delay \in MaxDelayChoices
    /\ rt_retryable \in RetryableChoices
    /\ rt_attempt = 0
    /\ rt_calls = <<>>
    /\ rt_sleeps = <<>>
    /\ rt_last_exc = NoExc
    /\ rt_out = NoOutcome

\* return await fn(*args, **kwargs)   (line 42): fn returns.
RetryCallReturns ==
    /\ rt_pc = "call"
    /\ \E value \in RetryValues :
         /\ rt_calls' = Append(rt_calls, CallReturned(value))
         /\ rt_out' = Returned(value)
    /\ rt_pc' = "returned"
    /\ UNCHANGED <<rt_max_retries, rt_max_delay, rt_retryable, rt_attempt,
                   rt_sleeps, rt_last_exc>>
    /\ UNCHANGED notRetryVars

\* fn raises an exception the except clause catches (lines 43-52, 54): on the
\* last attempt the loop is left and last_exc raised, otherwise the delay is
\* computed and asyncio.sleep awaited.
RetryCallRetryable ==
    /\ rt_pc = "call"
    /\ \E type \in ExcTypes :
         LET exc == Exc(type, rt_attempt)
             kept == last_exc(rt_last_exc, exc)
         IN  /\ IsRetryable(type, rt_retryable)
             /\ rt_calls' = Append(rt_calls, CallRaised(exc))
             /\ rt_last_exc' = kept
             /\ IF rt_attempt = rt_max_retries
                  THEN /\ rt_pc' = "raised"
                       /\ rt_out' = Raised(kept)
                       /\ UNCHANGED rt_sleeps
                  ELSE /\ rt_pc' = "sleep"
                       /\ rt_sleeps' = Append(rt_sleeps, Delay(rt_attempt, rt_max_delay))
                       /\ UNCHANGED rt_out
    /\ UNCHANGED <<rt_max_retries, rt_max_delay, rt_retryable, rt_attempt>>
    /\ UNCHANGED notRetryVars

RetryCallPropagates_Retries ==
    /\ rt_pc = "call"
    /\ \E type \in ExcTypes :
         LET exc == Exc(type, rt_attempt)
         IN  /\ ~IsRetryable(type, rt_retryable)
             /\ rt_calls' = Append(rt_calls, CallRaised(exc))
             /\ IF rt_attempt = rt_max_retries
                  THEN /\ rt_pc' = "raised"
                       /\ rt_out' = Raised(exc)
                       /\ UNCHANGED rt_sleeps
                  ELSE /\ rt_pc' = "sleep"
                       /\ rt_sleeps' = Append(rt_sleeps, Delay(rt_attempt, rt_max_delay))
                       /\ UNCHANGED rt_out
    /\ UNCHANGED <<rt_max_retries, rt_max_delay, rt_retryable, rt_attempt,
                   rt_last_exc>>
    /\ UNCHANGED notRetryVars

\* fn raises an exception the except clause does not catch (lines 41-43): it
\* leaves with_retry.
RetryCallPropagates ==
    /\ rt_pc = "call"
    /\ \E type \in ExcTypes :
         LET exc == Exc(type, rt_attempt)
         IN  /\ ~IsRetryable(type, rt_retryable)
             /\ rt_calls' = Append(rt_calls, CallRaised(exc))
             /\ rt_out' = Raised(exc)
    /\ rt_pc' = "raised"
    /\ UNCHANGED <<rt_max_retries, rt_max_delay, rt_retryable, rt_attempt,
                   rt_sleeps, rt_last_exc>>
    /\ UNCHANGED notRetryVars

\* asyncio.sleep returns and the for loop takes the next attempt (lines 52, 40).
RetryWake ==
    /\ rt_pc = "sleep"
    /\ rt_attempt' = rt_attempt + 1
    /\ rt_pc' = "call"
    /\ UNCHANGED <<rt_max_retries, rt_max_delay, rt_retryable, rt_calls,
                   rt_sleeps, rt_last_exc, rt_out>>
    /\ UNCHANGED notRetryVars

NextRetry ==
    \/ RetryCallReturns
    \/ RetryCallRetryable
    \/ RetryCallPropagates
    \/ RetryWake

SpecRetry == InitRetry /\ [][NextRetry]_vars

RetryCallIsRetryable(i) ==
    /\ rt_calls[i].kind = "error"
    /\ IsRetryable(rt_calls[i].exc.type, rt_retryable)

RetryCallIsFatal(i) ==
    /\ rt_calls[i].kind = "error"
    /\ ~IsRetryable(rt_calls[i].exc.type, rt_retryable)

\* C12: with_retry calls fn at most max_retries + 1 times; a successful call
\* is the last call and its value is what with_retry returns; when every one
\* of the max_retries + 1 attempts fails with a retryable error, with_retry
\* raises the exception of the last attempt.
C12_AttemptsAndOutcome ==
    /\ Len(rt_calls) <= rt_max_retries + 1
    /\ \A i \in 1..Len(rt_calls) :
         rt_calls[i].kind = "ok"
           => /\ i = Len(rt_calls)
              /\ rt_pc = "returned"
              /\ rt_out = Returned(rt_calls[i].value)
    /\ (/\ Len(rt_calls) = rt_max_retries + 1
        /\ \A i \in 1..Len(rt_calls) : RetryCallIsRetryable(i))
         => /\ rt_pc = "raised"
            /\ rt_out = Raised(rt_calls[Len(rt_calls)].exc)
    /\ (/\ rt_pc = "raised"
        /\ \A i \in 1..Len(rt_calls) : RetryCallIsRetryable(i))
         => Len(rt_calls) = rt_max_retries + 1

C12_Witness ==
    /\ rt_pc = "raised"
    /\ rt_max_retries >= 2
    /\ Len(rt_calls) = rt_max_retries + 1
    /\ \A i \in 1..Len(rt_calls) : RetryCallIsRetryable(i)
    /\ rt_calls[1].exc.type # rt_calls[Len(rt_calls)].exc.type

\* C13: an exception of fn that is not in the retryable set leaves with_retry
\* at once: the call that raised it is the last call, with_retry raises that
\* exception, and no sleep follows the call.
C13_FatalPropagates ==
    \A i \in 1..Len(rt_calls) :
        RetryCallIsFatal(i)
          => /\ i = Len(rt_calls)
             /\ rt_pc = "raised"
             /\ rt_out = Raised(rt_calls[i].exc)
             /\ Len(rt_sleeps) = i - 1

C13_Witness ==
    /\ rt_pc = "raised"
    /\ Len(rt_calls) >= 2
    /\ Len(rt_calls) <= rt_max_retries
    /\ RetryCallIsFatal(Len(rt_calls))

\* C35: before the retry that follows failed attempt number a (counted from
\* 0), with_retry sleeps exactly min(baseDelay * 2^a, maxDelay): the delays
\* never decrease, never exceed maxDelay, and no sleep follows the last
\* failed attempt.
C35_BackoffDelays ==
    /\ \A k \in DOMAIN rt_sleeps :
         LET a == k - 1
             doubled == BASE_DELAY * 2^a
         IN  /\ RetryCallIsRetryable(k)
             /\ rt_calls[k].exc.attempt = a
             /\ rt_sleeps[k] = IF doubled < rt_max_delay THEN doubled ELSE rt_max_delay
             /\ rt_sleeps[k] <= rt_max_delay
             /\ k > 1 => rt_sleeps[k - 1] <= rt_sleeps[k]
    /\ Len(rt_sleeps) <= rt_max_retries
    /\ rt_pc = "sleep" => Len(rt_sleeps) = Len(rt_calls)
    /\ rt_pc = "call" => Len(rt_sleeps) = Len(rt_calls)
    /\ rt_pc \in {"returned", "raised"} => Len(rt_sleeps) = Len(rt_calls) - 1

\* Four attempts failed with a max_delay the doubling exceeds: three sleeps,
\* the last two at the ceiling, none after the fourth failure.
C35_Witness ==
    /\ rt_pc = "raised"
    /\ rt_max_retries = 3
    /\ rt_max_delay = BASE_DELAY + 1
    /\ Len(rt_calls) = 4
    /\ rt_sleeps = <<BASE_DELAY, 2 * BASE_DELAY, rt_max_delay>>

\* ------------------------------------------------------------------------
\* SpecStore: JobStateManager (src/app/worker/job_state.py) on one job
\* ------------------------------------------------------------------------

\* last value of the clock in SpecStore
MaxStoreTime == 3

\* settings.JOB_TTL_SECONDS, in ticks of the SpecStore clock
TtlTicks == 2

\* number of JobStateManager calls started in SpecStore
MaxStoreCalls == 2

\* class JobStatus
JobStatuses ==
    {"uploaded", "validating", "ingesting", "converting", "rendering",
     "ingested", "diagnosing", "diagnosed", "fixing", "verifying", "done",
     "needs_review", "failed"}

\* VALID_TRANSITIONS.get(current, set())
VALID_TRANSITIONS(current) ==
    CASE current = "uploaded" -> {"ingesting", "failed"}
      [] current = "ingesting" -> {"converting", "failed"}
      [] current = "converting" -> {"rendering", "failed"}
      [] current = "rendering" -> {"ingested", "failed"}
      [] current = "ingested" -> {"diagnosing", "failed"}
      [] current = "diagnosing" -> {"diagnosed", "failed"}
      [] current = "diagnosed" -> {"diagnosing", "fixing", "failed"}
      [] current = "fixing" -> {"fixing", "verifying", "failed"}
      [] current = "verifying" -> {"done", "needs_review", "failed"}
      [] current = "needs_review" -> {"done", "needs_review", "fixing", "failed"}
      [] current = "done" -> {"needs_review"}
      [] OTHER -> {}

\* The error argument of set_state: None, or a string.
NoError == [given |-> FALSE, text |-> ""]

ErrorText(text) == [given |-> TRUE, text |-> text]

\* if error:   (line 97): None and the empty string are both false.
ErrorIsSet(error) == error.given /\ error.text # ""

\* The error arguments the callers pass: error=str(exc) with "failed"
\* (tasks.py lines 131, 224, 347), nothing with every other status.
ErrorArgs(new_status) ==
    IF new_status = "failed" THEN {ErrorText(""), ErrorText("message")}
    ELSE {NoError}

\* hget(key, "status"): None when the key or the field is missing.
NoStatus == "None"

hget_status(hash) == IF "status" \in DOMAIN hash THEN hash["status"] ELSE NoStatus

\* hset(key, mapping=...): the fields of the mapping replace or extend those of
\* the hash; a missing key is created.
hset(hash, mapping) ==
    [f \in DOMAIN hash \cup DOMAIN mapping |->
        IF f \in DOMAIN mapping THEN mapping[f] ELSE hash[f]]

\* mapping of create_job (lines 64-70)
CreateMapping(now) ==
    [id |-> "job", status |-> "uploaded", original_filename |-> "file",
     created_at |-> now, updated_at |-> now]

\* updates of set_state (lines 93-100)
Updates(new_status, error, now) ==
    LET base == [status |-> new_status, updated_at |-> now]
        with_error == IF ErrorIsSet(error)
                        THEN hset(base, [error |-> error.text]) ELSE base
    IN  IF new_status \in {"done", "failed", "needs_review"}
          THEN hset(with_error, [completed_at |-> now]) ELSE with_error

\* current and new_status not in VALID_TRANSITIONS.get(current, set())
\* (line 87)
IsInvalidTransition(current, new_status) ==
    /\ current # NoStatus
    /\ current # ""
    /\ new_status \notin VALID_TRANSITIONS(current)

\* The store when the model starts: no record (the job not yet created, or its
\* record deleted or expired), or the job created at time 0 and driven to some
\* status by the tasks within the same tick.
StoreStart(statuses) ==
    /\ \/ /\ st_hash = EmptyHash
          /\ st_expiry = NoExpiry
          /\ st_written = Never
       \/ /\ \E status \in statuses :
                st_hash = hset(CreateMapping(0), [status |-> status])
          /\ st_expiry = TtlTicks
          /\ st_written = 0
    /\ st_now = 0
    /\ st_statuses = statuses
    /\ st_calls = [c \in Callers |-> NotCalling]
    /\ st_ncalls = 0
    /\ st_log = {}
    /\ st_last = NoCall
    /\ st_deleted = FALSE

\* SpecStore: the calls with every status, the clock standing still.
InitStore ==
    /\ PipeIdle
    /\ RenderIdle
    /\ LogIdle
    /\ ObsIdle
    /\ PlanIdle
    /\ FixIdle
    /\ RetryIdle
    /\ RateIdle
    /\ StopIdle
    /\ LoopIdle
    /\ ExecIdle
    /\ JobsIdle
    /\ StoreStart(JobStatuses)

\* The statuses the calls of SpecExpiry write.
ExpiryStatuses == {"fixing", "failed"}

\* SpecExpiry: the calls with two statuses, the clock running.
InitExpiry ==
    /\ PipeIdle
    /\ RenderIdle
    /\ LogIdle
    /\ ObsIdle
    /\ PlanIdle
    /\ FixIdle
    /\ RetryIdle
    /\ RateIdle
    /\ StopIdle
    /\ LoopIdle
    /\ ExecIdle
    /\ JobsIdle
    /\ StoreStart(ExpiryStatuses)

\* The clock advances; Redis removes the key when its expiry time is reached.
StoreTick ==
    /\ st_now < MaxStoreTime
    /\ st_now' = st_now + 1
    /\ IF st_expiry # NoExpiry /\ st_now' >= st_expiry
         THEN /\ st_hash' = EmptyHash
              /\ st_expiry' = NoExpiry
         ELSE UNCHANGED <<st_hash, st_expiry>>
    /\ UNCHANGED <<st_statuses, st_written, st_calls, st_ncalls, st_log, st_last, st_deleted>>
    /\ UNCHANGED notStoreVars

\* create_job up to its first await (lines 62-73): the API creates the job
\* under a fresh id, so the key does not exist.
CreateJobHset(c) ==
    /\ st_calls[c] = NotCalling
    /\ st_ncalls = 0
    /\ st_hash = EmptyHash
    /\ st_hash' = hset(st_hash, CreateMapping(st_now))
    /\ st_written' = st_now
    /\ st_calls' = [st_calls EXCEPT ![c] = [op |-> "create_job"]]
    /\ st_ncalls' = st_ncalls + 1
    /\ st_deleted' = FALSE
    /\ UNCHANGED <<st_expiry, st_now, st_statuses, st_log, st_last>>
    /\ UNCHANGED notStoreVars

\* await r.expire(key, settings.JOB_TTL_SECONDS)   (line 74): no effect on a
\* missing key.
CreateJobExpire(c) ==
    /\ st_calls[c] = [op |-> "create_job"]
    /\ st_expiry' = IF st_hash = EmptyHash THEN NoExpiry ELSE st_now + TtlTicks
    /\ st_calls' = [st_calls EXCEPT ![c] = NotCalling]
    /\ UNCHANGED <<st_hash, st_now, st_statuses, st_written, st_ncalls, st_log,
                   st_last, st_deleted>>
    /\ UNCHANGED notStoreVars

\* set_state up to its second await (lines 85-103): reads the status, logs the
\* warning, builds the updates.
SetStateHget(c) ==
    /\ st_calls[c] = NotCalling
    /\ st_ncalls < MaxStoreCalls
    /\ \E new_status \in st_statuses :
         \E error \in ErrorArgs(new_status) :
           LET current == hget_status(st_hash)
               warned == IsInvalidTransition(current, new_status)
           IN  /\ st_log' = IF warned THEN st_log \cup {<<current, new_status>>}
                            ELSE st_log
               /\ st_calls' = [st_calls EXCEPT ![c] =
                                 [op |-> "set_state", current |-> current,
                                  new_status |-> new_status, warned |-> warned,
                                  updates |-> Updates(new_status, error, st_now)]]
    /\ st_ncalls' = st_ncalls + 1
    /\ UNCHANGED <<st_hash, st_expiry, st_now, st_statuses, st_written, st_last, st_deleted>>
    /\ UNCHANGED notStoreVars

SetStateHset_Strict(c) ==
    /\ st_calls[c].op = "set_state"
    /\ st_hash' = IF st_calls[c].warned THEN st_hash
                  ELSE hset(st_hash, st_calls[c].updates)
    /\ st_written' = IF st_calls[c].warned THEN st_written ELSE st_now
    /\ st_last' = [op |-> "set_state", caller |-> c,
                   current |-> st_calls[c].current,
                   new_status |-> st_calls[c].new_status,
                   warned |-> st_calls[c].warned,
                   status_after |-> hget_status(st_hash')]
    /\ st_calls' = [st_calls EXCEPT ![c] = NotCalling]
    /\ UNCHANGED <<st_expiry, st_now, st_statuses, st_ncalls, st_log, st_deleted>>
    /\ UNCHANGED notStoreVars

\* await r.hset(key, mapping=updates)   (line 104) and the return.
SetStateHset(c) ==
    /\ st_calls[c].op = "set_state"
    /\ st_hash' = hset(st_hash, st_calls[c].updates)
    /\ st_written' = st_now
    /\ st_last' = [op |-> "set_state", caller |-> c,
                   current |-> st_calls[c].current,
                   new_status |-> st_calls[c].new_status,
                   warned |-> st_calls[c].warned,
                   status_after |-> hget_status(st_hash')]
    /\ st_calls' = [st_calls EXCEPT ![c] = NotCalling]
    /\ UNCHANGED <<st_expiry, st_now, st_statuses, st_ncalls, st_log, st_deleted>>
    /\ UNCHANGED notStoreVars

\* delete_job (lines 112-115), called by the API's delete handler.
DeleteJob ==
    /\ st_hash # EmptyHash
    /\ st_ncalls < MaxStoreCalls
    /\ st_hash' = EmptyHash
    /\ st_expiry' = NoExpiry
    /\ st_written' = Never
    /\ st_ncalls' = st_ncalls + 1
    /\ st_deleted' = TRUE
    /\ UNCHANGED <<st_now, st_statuses, st_calls, st_log, st_last>>
    /\ UNCHANGED notStoreVars

NextStore ==
    \/ \E c \in Callers : CreateJobHset(c)
    \/ \E c \in Callers : CreateJobExpire(c)
    \/ \E c \in Callers : SetStateHget(c)
    \/ \E c \in Callers : SetStateHset(c)
    \/ DeleteJob

SpecStore == InitStore /\ [][NextStore]_vars

NextExpiry ==
    \/ StoreTick
    \/ \E c \in Callers : CreateJobHset(c)
    \/ \E c \in Callers : CreateJobExpire(c)
    \/ \E c \in Callers : SetStateHget(c)
    \/ \E c \in Callers : SetStateHset(c)
    \/ DeleteJob

SpecExpiry == InitExpiry /\ [][NextExpiry]_vars

\* C14: set_state never rejects a status change: when a set_state call has
\* returned, it wrote new_status whether or not the transition from the status
\* it read is in VALID_TRANSITIONS, and the record's status was new_status right
\* after its write.
C14_NeverRejects ==
    st_last.op = "set_state" => st_last.status_after = st_last.new_status

C14_Witness ==
    /\ st_last.op = "set_state"
    /\ st_last.warned
    /\ st_last.current = "done"
    /\ st_last.new_status = "fixing"
    /\ st_last.status_after = "fixing"

\* C15: a job record expires a fixed TTL after the last write to it: a record
\* written less than the TTL ago exists, and every existing record has an
\* expiry set.
C15_Original ==
    /\ (st_written # Never /\ st_now - st_written < TtlTicks)
         => st_hash # EmptyHash
    /\ st_hash # EmptyHash => st_expiry # NoExpiry

\* C16: failed is an allowed successor, in VALID_TRANSITIONS, of every status
\* a job can hold: whatever status the record holds, other than failed itself,
\* its successors include failed.
C16_Original ==
    LET status == hget_status(st_hash)
    IN  status \in JobStatuses \ {"failed"}
          => "failed" \in VALID_TRANSITIONS(status)

\* ------------------------------------------------------------------------
\* C17 (SpecJobs): re-entering fixing from done and from needs_review
\* ------------------------------------------------------------------------

\* C17: a job in done and a job in needs_review can each re-enter fixing:
\* fixing is an allowed successor of both statuses, and a manual fix
\* re-trigger is accepted from both.
C17_Original ==
    /\ jb_status \in {"done", "needs_review"}
         => "fixing" \in VALID_TRANSITIONS(jb_status)
    /\ (jb_api.handler = "trigger_fix" /\ jb_api.status \in {"done", "needs_review"})
         => jb_api.accepted

\* C17, amended: only needs_review re-enters fixing directly. fixing is an
\* allowed successor of needs_review and trigger_fix is accepted from it; the
\* one allowed successor of done is needs_review, trigger_fix from done is
\* refused, and reject_job, which writes needs_review, is accepted from done.
\* Every status trigger_fix is accepted from has fixing as an allowed
\* successor.
C17_ReentryThroughNeedsReview ==
    /\ jb_status = "needs_review" => "fixing" \in VALID_TRANSITIONS(jb_status)
    /\ jb_status = "done" => VALID_TRANSITIONS(jb_status) = {"needs_review"}
    /\ jb_api.handler = "trigger_fix"
         => /\ jb_api.status = "needs_review" => jb_api.accepted
            /\ jb_api.status = "done" => ~jb_api.accepted
            /\ jb_api.accepted => "fixing" \in VALID_TRANSITIONS(jb_api.status)
    /\ (jb_api.handler = "reject_job" /\ jb_api.status = "done") => jb_api.accepted

\* trigger_fix was accepted for a job in needs_review, after an earlier request.
C17_Witness ==
    /\ jb_api = [handler |-> "trigger_fix", status |-> "needs_review", accepted |-> TRUE]
    /\ jb_triggers = MaxTriggers
    /\ jb_queue # <<>>
    /\ jb_queue[Len(jb_queue)] = "fix_document"

\* ------------------------------------------------------------------------
\* C18 (SpecExpiry): atomicity of the job-store calls
\* ------------------------------------------------------------------------

\* The record create_job wrote is in the store.
StoreCreatedRecord == "created_at" \in DOMAIN st_hash

\* C18: every job-store call changes the record in one atomic step: no reader
\* (get_job, list_jobs) finds a created record without its expiry.
C18_Original ==
    StoreCreatedRecord => st_expiry # NoExpiry

\* ------------------------------------------------------------------------
\* SpecFix: the fix_document task (src/app/worker/tasks.py, lines 42-132),
\* run_fix_loop's entry and exit and run_verification's confidence score
\*
\* The task's steps are its awaits on the job store; the loop between loading
\* the diagnosis and storing the final one is SpecLoop's and appears here by
\* its outcome. The record can expire or be deleted while the task runs.
\* ------------------------------------------------------------------------

\* AUTO_APPROVE_THRESHOLD, in tenths
AUTO_APPROVE_THRESHOLD == 850

\* Summaries of the diagnosis the loop starts from and ends with.
FixInitialSummaries == {Summary(0, 1, 3), Summary(1, 0, 9), Summary(1, 1, 1)}

FixFinalSummaries ==
    {Summary(0, 0, 0), Summary(0, 0, 1), Summary(0, 1, 0), Summary(1, 0, 0),
     Summary(1, 1, 1)}

\* visual_score: the default, and a lower score of the AI visual check.
VisualScores == {100, 70}

\* str(exc) of an exception raised inside the loop or the verification; an
\* exception built without arguments has the empty string.
FixMessages == {"", "render failed"}

Failure(message) == [raised |-> TRUE, message |-> message]

Max(a, b) == IF a >= b THEN a ELSE b

\* round(x, 1) of x = num / (10 * den), in tenths: to the nearest tenth, a tie
\* to the even one.
RoundTenths(num, den) ==
    LET q == num \div den
        r == num % den
    IN  IF 2 * r > den \/ (2 * r = den /\ q % 2 = 1) THEN q + 1 ELSE q

\* converged = final_critical == 0 and diagnosis.summary.warning_count == 0
\* (orchestrator.py line 190)
Converged(final) == final.critical_count = 0 /\ final.warning_count = 0

\* _compute_confidence (verification/__init__.py lines 386-454), final_score
\* in tenths. Scores are kept as numerators over initial_total, the one
\* denominator the computation introduces.
compute_confidence(has_diagnoses, initial, final, applied, visual_score) ==
    IF ~has_diagnoses THEN 500
    ELSE
    LET den == IF initial.total_issues = 0 THEN 1 ELSE initial.total_issues
        base == IF initial.total_issues = 0 \/ final.total_issues = 0
                  THEN 100 * den
                  ELSE 50 * den
                       + 50 * Max(0, initial.total_issues - final.total_issues)
        convergence_bonus ==
            IF Converged(final) THEN 10
            ELSE IF applied = 0 THEN -10
            ELSE IF final.total_issues >= initial.total_issues THEN -5
            ELSE 0
        severity_penalty ==
            Max(-50, 0 - final.critical_count * 15 - final.warning_count * 5)
        algorithmic ==
            Max(0, Min(100 * den, base + (convergence_bonus + severity_penalty) * den))
    IN  Max(0, Min(1000, RoundTenths(7 * algorithmic + 3 * visual_score * den, den)))

\* "done" if confidence >= AUTO_APPROVE_THRESHOLD else "needs_review"
\* (tasks.py lines 87-108)
final_status(confidence, final) ==
    IF confidence >= AUTO_APPROVE_THRESHOLD THEN "done" ELSE "needs_review"

\* The task is taken from the queue. It was enqueued for a job in diagnosed or
\* needs_review; since then the record may have expired (the files stay) or
\* the job may have been deleted (the files go too).
InitFix ==
    /\ PipeIdle
    /\ RenderIdle
    /\ LogIdle
    /\ ObsIdle
    /\ PlanIdle
    /\ StoreIdle
    /\ RetryIdle
    /\ RateIdle
    /\ StopIdle
    /\ LoopIdle
    /\ ExecIdle
    /\ JobsIdle
    /\ fx_pc = "start"
    /\ \/ /\ \E status \in {"diagnosed", "needs_review"} :
                fx_hash = hset(CreateMapping(0), [status |-> status])
          /\ fx_files = TRUE
       \/ /\ fx_hash = EmptyHash
          /\ fx_files \in BOOLEAN
    /\ fx_missing = FALSE
    /\ fx_initial = Summary(0, 0, 0)
    /\ fx_final = Summary(0, 0, 0)
    /\ fx_applied = 0
    /\ fx_confidence = NoScore
    /\ fx_exc = NoFailure

FixRunning == fx_pc \in {"start", "load", "loop", "stored", "verify"}

\* JobStateManager.set_state on the job's hash.
FixSetState(new_status, error) ==
    fx_hash' = hset(fx_hash, Updates(new_status, error, 0))

\* except Exception as exc (tasks.py lines 129-132): the status is set to
\* failed with error=str(exc) and the exception raised again.
FixExcept(message) ==
    /\ FixSetState("failed", ErrorText(message))
    /\ fx_exc' = Failure(message)
    /\ fx_pc' = "raised"

\* await JobStateManager.set_state(job_id, "fixing")   (tasks.py line 53)
FixSetFixing ==
    /\ fx_pc = "start"
    /\ fx_missing' = (fx_hash = EmptyHash)
    /\ FixSetState("fixing", NoError)
    /\ fx_pc' = "load"
    /\ UNCHANGED <<fx_files, fx_initial, fx_final, fx_applied, fx_confidence, fx_exc>>
    /\ UNCHANGED notFixVars

\* run_fix_loop finds no record (orchestrator.py lines 40-42).
FixJobNotFound ==
    /\ fx_pc = "load"
    /\ fx_hash = EmptyHash
    /\ FixExcept("Job not found")
    /\ UNCHANGED <<fx_files, fx_missing, fx_initial, fx_final, fx_applied, fx_confidence>>
    /\ UNCHANGED notFixVars

\* _load_diagnosis finds no diagnosis.json (orchestrator.py lines 51, 258-260).
FixNoDiagnosis ==
    /\ fx_pc = "load"
    /\ fx_hash # EmptyHash
    /\ ~fx_files
    /\ FixExcept("No diagnosis found")
    /\ UNCHANGED <<fx_files, fx_missing, fx_initial, fx_final, fx_applied, fx_confidence>>
    /\ UNCHANGED notFixVars

\* The record and the diagnosis are loaded (orchestrator.py lines 40-56).
FixLoaded ==
    /\ fx_pc = "load"
    /\ fx_hash # EmptyHash
    /\ fx_files
    /\ fx_initial' \in FixInitialSummaries
    /\ fx_pc' = "loop"
    /\ UNCHANGED <<fx_hash, fx_files, fx_missing, fx_final, fx_applied, fx_confidence, fx_exc>>
    /\ UNCHANGED notFixVars

\* The loop ends and the final diagnosis is stored (orchestrator.py lines
\* 188-224; _store_diagnosis sets "fixing", lines 344-350).
FixLoopCompletes ==
    /\ fx_pc = "loop"
    /\ fx_final' \in FixFinalSummaries
    /\ fx_applied' \in 0..MaxApplied
    /\ FixSetState("fixing", NoError)
    /\ fx_pc' = "stored"
    /\ UNCHANGED <<fx_files, fx_missing, fx_initial, fx_confidence, fx_exc>>
    /\ UNCHANGED notFixVars

\* An exception leaves run_fix_loop.
FixLoopRaises ==
    /\ fx_pc = "loop"
    /\ \E message \in FixMessages : FixExcept(message)
    /\ UNCHANGED <<fx_files, fx_missing, fx_initial, fx_final, fx_applied, fx_confidence>>
    /\ UNCHANGED notFixVars

\* orchestration.json is written and the status set to verifying (tasks.py
\* lines 61-76).
FixSetVerifying ==
    /\ fx_pc = "stored"
    /\ FixSetState("verifying", NoError)
    /\ fx_pc' = "verify"
    /\ UNCHANGED <<fx_files, fx_missing, fx_initial, fx_final, fx_applied, fx_confidence, fx_exc>>
    /\ UNCHANGED notFixVars

\* run_verification finds no record (verification/__init__.py lines 54-56).
FixVerifyJobNotFound ==
    /\ fx_pc = "verify"
    /\ fx_hash = EmptyHash
    /\ FixExcept("Job not found")
    /\ UNCHANGED <<fx_files, fx_missing, fx_initial, fx_final, fx_applied, fx_confidence>>
    /\ UNCHANGED notFixVars

\* An exception leaves run_verification.
FixVerifyRaises ==
    /\ fx_pc = "verify"
    /\ fx_hash # EmptyHash
    /\ \E message \in FixMessages : FixExcept(message)
    /\ UNCHANGED <<fx_files, fx_missing, fx_initial, fx_final, fx_applied, fx_confidence>>
    /\ UNCHANGED notFixVars

\* run_verification returns and the final status is written (tasks.py lines
\* 81-127).
FixVerificationReturns ==
    /\ fx_pc = "verify"
    /\ fx_hash # EmptyHash
    /\ \E visual_score \in VisualScores :
         LET confidence ==
                 compute_confidence(fx_files, fx_initial, fx_final, fx_applied,
                                    visual_score)
         IN  /\ fx_confidence' = confidence
             /\ FixSetState(final_status(confidence, fx_final), NoError)
    /\ fx_pc' = "returned"
    /\ UNCHANGED <<fx_files, fx_missing, fx_initial, fx_final, fx_applied, fx_exc>>
    /\ UNCHANGED notFixVars

\* The key's TTL runs out while the task runs; the files stay.
FixRecordExpires ==
    /\ FixRunning
    /\ fx_hash # EmptyHash
    /\ fx_hash' = EmptyHash
    /\ UNCHANGED <<fx_pc, fx_files, fx_missing, fx_initial, fx_final, fx_applied,
                   fx_confidence, fx_exc>>
    /\ UNCHANGED notFixVars

\* The API's delete_job while the task runs (api/printfix.py lines 217-225): the
\* record and the files are removed.
FixJobDeleted ==
    /\ FixRunning
    /\ fx_hash # EmptyHash
    /\ fx_hash' = EmptyHash
    /\ fx_files' = FALSE
    /\ UNCHANGED <<fx_pc, fx_missing, fx_initial, fx_final, fx_applied,
                   fx_confidence, fx_exc>>
    /\ UNCHANGED notFixVars

NextFix ==
    \/ FixSetFixing
    \/ FixJobNotFound
    \/ FixNoDiagnosis
    \/ FixLoaded
    \/ FixLoopCompletes
    \/ FixLoopRaises
    \/ FixSetVerifying
    \/ FixVerifyJobNotFound
    \/ FixVerifyRaises
    \/ FixVerificationReturns
    \/ FixRecordExpires
    \/ FixJobDeleted

SpecFix == InitFix /\ [][NextFix]_vars

\* The run hit a job-level fatal failure: the task found no job record when it
\* started, or an exception (job not found, no diagnosis, or one raised inside
\* the loop or the verification) reached the task's except clause.
FixFatal == fx_missing \/ fx_exc.raised

FixEnded == fx_pc \in {"returned", "raised"}

\* C19: when the fix run hits a job-level fatal failure, the task ends with
\* status = failed and the error message in the error field; the job is not
\* left in fixing or verifying.
C19_Original ==
    (FixEnded /\ FixFatal)
      => /\ hget_status(fx_hash) = "failed"
         /\ "error" \in DOMAIN fx_hash
         /\ fx_hash["error"] = fx_exc.message

\* C20: when the loop completes without full convergence (critical or warning
\* issues remain in the final diagnosis), the status after the task is
\* needs_review, never done.
C20_Original ==
    (fx_pc = "returned" /\ ~Converged(fx_final))
      => hget_status(fx_hash) = "needs_review"

\* ------------------------------------------------------------------------
\* SpecPlan: plan_fixes_rule_based (planner.py:401-510) called again and
\* again in one worker process.  The issue maps are module-level dictionaries
\* of FixAction templates; template.model_copy() (planner.py:460) is a shallow
\* copy, so a planned action and its template hold the same params dictionary.
\* Numbers in parameter maps are written as the text json.dumps gives them.
\* ------------------------------------------------------------------------

\* FixAction (schema/orchestration.py:12-19) as the planner builds it; a
\* parameter map is the set of its (key, value) pairs.
FixActionTemplate(tool_name, params, issue_type, is_fallback) ==
    [tool_name |-> tool_name, params |-> params,
     target_issues |-> <<issue_type>>, is_fallback |-> is_fallback]

MarginParams(v) == {<<"top", v>>, <<"bottom", v>>, <<"left", v>>, <<"right", v>>}

IndentParams ==
    {<<"max_left_inches", "0.5">>, <<"max_right_inches", "0.5">>,
     <<"max_first_line_inches", "0.5">>}

\* _DOCX_ISSUE_MAP (planner.py:31-160); from_font is the value the shared
\* params dictionary of the replace_font template holds at the moment.
_DOCX_ISSUE_MAP(from_font) ==
    [margin_violation |->
        <<FixActionTemplate("set_margins", MarginParams("0.75"), "margin_violation", FALSE)>>,
     inconsistent_margins |->
        <<FixActionTemplate("set_margins", MarginParams("0.75"), "inconsistent_margins", FALSE)>>,
     clipped_content |->
        <<FixActionTemplate("set_margins", MarginParams("0.5"), "clipped_content", FALSE),
          FixActionTemplate("adjust_paragraph_indents", IndentParams, "clipped_content", FALSE),
          FixActionTemplate("auto_fit_tables", {}, "clipped_content", FALSE)>>,
     text_overflow |->
        <<FixActionTemplate("auto_fit_tables", {}, "text_overflow", FALSE),
          FixActionTemplate("adjust_paragraph_indents", IndentParams, "text_overflow", FALSE)>>,
     table_overflow |->
        <<FixActionTemplate("auto_fit_tables", {}, "table_overflow", FALSE),
          FixActionTemplate("resize_table_text",
              {<<"table_index", "0">>, <<"max_font_size_pt", "9.0">>}, "table_overflow", FALSE)>>,
     small_font |->
        <<FixActionTemplate("adjust_font_size", {<<"min_size_pt", "10.0">>}, "small_font", FALSE)>>,
     wrong_orientation |->
        <<FixActionTemplate("set_orientation", {<<"orientation", "landscape">>},
              "wrong_orientation", FALSE)>>,
     blank_page |->
        <<FixActionTemplate("remove_blank_pages", {}, "blank_page", FALSE)>>,
     bad_page_break |->
        <<FixActionTemplate("fix_page_breaks", {<<"strategy", "remove_consecutive">>},
              "bad_page_break", FALSE)>>,
     page_size_mismatch |->
        <<FixActionTemplate("set_page_size", {<<"width", "8.27">>, <<"height", "11.69">>},
              "page_size_mismatch", FALSE)>>,
     non_embedded_font |->
        <<FixActionTemplate("replace_font", {<<"from_font", from_font>>, <<"to_font", "Arial">>},
              "non_embedded_font", FALSE)>>,
     image_overflow |->
        <<FixActionTemplate("resize_images_to_fit",
              {<<"max_width_pct", "100.0">>, <<"max_height_pct", "90.0">>},
              "image_overflow", FALSE)>>,
     inconsistent_indent |->
        <<FixActionTemplate("adjust_paragraph_indents", IndentParams, "inconsistent_indent", FALSE)>>]

ScaleParams(v) == {<<"scale_factor", v>>}

RotateParams == {<<"pages", "null">>, <<"angle", "90">>}

\* _DOCX_TO_PDF_FALLBACK (planner.py:166-239)
_DOCX_TO_PDF_FALLBACK ==
    [margin_violation |->
        <<FixActionTemplate("pdf_crop_margins", MarginParams("0.25"), "margin_violation", TRUE)>>,
     inconsistent_margins |->
        <<FixActionTemplate("pdf_crop_margins", MarginParams("0.25"), "inconsistent_margins", TRUE)>>,
     clipped_content |->
        <<FixActionTemplate("pdf_scale_content", ScaleParams("0.9"), "clipped_content", TRUE)>>,
     text_overflow |->
        <<FixActionTemplate("pdf_scale_content", ScaleParams("0.92"), "text_overflow", TRUE)>>,
     table_overflow |->
        <<FixActionTemplate("pdf_scale_content", ScaleParams("0.85"), "table_overflow", TRUE)>>,
     wrong_orientation |->
        <<FixActionTemplate("pdf_rotate_pages", RotateParams, "wrong_orientation", TRUE)>>,
     image_overflow |->
        <<FixActionTemplate("pdf_scale_content", ScaleParams("0.9"), "image_overflow", TRUE)>>,
     inconsistent_indent |->
        <<FixActionTemplate("pdf_scale_content", ScaleParams("0.92"), "inconsistent_indent", TRUE)>>]

\* _PDF_ISSUE_MAP (planner.py:241-306)
_PDF_ISSUE_MAP ==
    [margin_violation |->
        <<FixActionTemplate("pdf_crop_margins", MarginParams("0.25"), "margin_violation", FALSE)>>,
     inconsistent_margins |->
        <<FixActionTemplate("pdf_crop_margins", MarginParams("0.25"), "inconsistent_margins", FALSE)>>,
     clipped_content |->
        <<FixActionTemplate("pdf_scale_content", ScaleParams("0.9"), "clipped_content", FALSE)>>,
     text_overflow |->
        <<FixActionTemplate("pdf_scale_content", ScaleParams("0.92"), "text_overflow", FALSE)>>,
     table_overflow |->
        <<FixActionTemplate("pdf_scale_content", ScaleParams("0.85"), "table_overflow", FALSE)>>,
     wrong_orientation |->
        <<FixActionTemplate("pdf_rotate_pages", RotateParams, "wrong_orientation", FALSE)>>,
     rgb_colorspace |->
        <<FixActionTemplate("convert_colorspace", {<<"target_colorspace", "cmyk">>},
              "rgb_colorspace", FALSE)>>,
     low_dpi_image |->
        <<FixActionTemplate("check_image_dpi", {<<"min_dpi", "150">>}, "low_dpi_image", FALSE)>>]

\* _XLSX_ISSUE_MAP (planner.py:308-341)
_XLSX_ISSUE_MAP ==
    [margin_violation |->
        <<FixActionTemplate("set_xlsx_margins", MarginParams("0.75"), "margin_violation", FALSE)>>,
     text_overflow |->
        <<FixActionTemplate("set_xlsx_page_setup",
              {<<"orientation", "portrait">>, <<"paper_size", "1">>, <<"fit_to_page", "true">>},
              "text_overflow", FALSE)>>,
     table_overflow |->
        <<FixActionTemplate("auto_fit_xlsx_columns", {<<"shrink_margins", "true">>},
              "table_overflow", FALSE)>>,
     wrong_orientation |->
        <<FixActionTemplate("auto_fit_xlsx_columns", {<<"shrink_margins", "true">>},
              "wrong_orientation", FALSE)>>]

\* _PPTX_ISSUE_MAP (planner.py:343-368)
_PPTX_ISSUE_MAP ==
    [slide_size_mismatch |->
        <<FixActionTemplate("set_pptx_slide_size", {<<"width", "10.0">>, <<"height", "7.5">>},
              "slide_size_mismatch", FALSE)>>,
     small_font |->
        <<FixActionTemplate("adjust_pptx_font_size", {<<"min_size_pt", "10.0">>},
              "small_font", FALSE)>>,
     text_overflow |->
        <<FixActionTemplate("adjust_pptx_font_size", {<<"min_size_pt", "10.0">>},
              "text_overflow", FALSE)>>]

\* _PAGE_SIZES (planner.py:371-374) and the default of its .get (planner.py:464)
_PAGE_SIZES ==
    [a4 |-> {<<"width", "8.27">>, <<"height", "11.69">>},
     letter |-> {<<"width", "8.5">>, <<"height", "11.0">>}]

PageSizeParams(target_page_size) ==
    IF target_page_size \in DOMAIN _PAGE_SIZES THEN _PAGE_SIZES[target_page_size]
    ELSE _PAGE_SIZES["a4"]

\* _severity_passes_filter (planner.py:377-384)
_severity_passes_filter(severity, aggressiveness) ==
    IF aggressiveness = "aggressive" THEN TRUE
    ELSE IF aggressiveness = "moderate" THEN severity \in {"critical", "warning"}
    ELSE severity = "critical"

\* the issue map plan_fixes_rule_based picks for a file type (planner.py:417-425)
issue_map(file_type, from_font) ==
    IF file_type = ".xlsx" THEN _XLSX_ISSUE_MAP
    ELSE IF file_type = ".pptx" THEN _PPTX_ISSUE_MAP
    ELSE IF _is_editable_format(file_type) THEN _DOCX_ISSUE_MAP(from_font)
    ELSE _PDF_ISSUE_MAP

\* None for an optional string of a DiagnosisIssue or of the job
None == "None"

\* A dictionary write through one action reaches every action that holds the
\* same dictionary: the replace_font actions of the plan all hold the params
\* of the one replace_font template (planner.py:136-143, 460).
SetFromFont(params, font) ==
    {p \in params : p[1] # "from_font"} \cup {<<"from_font", font>>}

Aliased(actions, font) ==
    [i \in DOMAIN actions |->
        IF actions[i].tool_name = "replace_font"
        THEN [actions[i] EXCEPT !.params = SetFromFont(@, font)]
        ELSE actions[i]]

\* One turn of the template loop (planner.py:459-477): st holds the local
\* variables actions, seen_tools and skipped, and the shared from_font.
PlanTemplate(st, template, issue, target_page_size) ==
    LET sized == IF template.tool_name = "set_page_size" /\ target_page_size # None
                 THEN [template EXCEPT !.params = PageSizeParams(target_page_size)]
                 ELSE template
        writes == template.tool_name = "replace_font" /\ issue.location # None
        font == IF writes THEN issue.location ELSE st.font
        action == IF template.tool_name = "replace_font"
                  THEN [sized EXCEPT !.params = SetFromFont(@, font)]
                  ELSE sized
        held == Aliased(st.actions, font)
        dedup_key == <<action.tool_name, action.params>>
    IN  IF dedup_key \in st.seen_tools
        THEN [st EXCEPT !.actions = held, !.font = font]
        ELSE [st EXCEPT !.actions = Append(held, action), !.font = font,
                        !.seen_tools = @ \cup {dedup_key}]

RECURSIVE PlanTemplates(_, _, _, _, _)
PlanTemplates(st, templates, k, issue, target_page_size) ==
    IF k > Len(templates) THEN st
    ELSE PlanTemplates(PlanTemplate(st, templates[k], issue, target_page_size),
                       templates, k + 1, issue, target_page_size)

\* The issue loop without the last resort of planner.py:453-455.
PlanIssue_NoLastResort(st, issue, args) ==
    LET issue_type == issue.type
        is_editable == _is_editable_format(args.file_type)
        primary == issue_map(args.file_type, st.font)
        use_fallback == /\ is_editable
                        /\ issue_type \in args.failed_issue_types
                        /\ issue_type \in DOMAIN _DOCX_TO_PDF_FALLBACK
        lookup_key == IF use_fallback THEN issue_type
                      ELSE IF issue.suggested_fix \in DOMAIN primary
                      THEN issue.suggested_fix
                      ELSE issue_type
        found == use_fallback \/ lookup_key \in DOMAIN primary
    IN  IF ~_severity_passes_filter(issue.severity, args.aggressiveness)
        THEN [st EXCEPT !.skipped = Append(@, <<issue_type, "severity below threshold",
                                                issue.severity>>)]
        ELSE IF use_fallback
        THEN PlanTemplates(st, _DOCX_TO_PDF_FALLBACK[issue_type], 1, issue,
                           args.target_page_size)
        ELSE IF found
        THEN PlanTemplates(st, primary[lookup_key], 1, issue, args.target_page_size)
        ELSE [st EXCEPT !.skipped = Append(@, <<issue_type, "no fix available">>)]

\* One turn of the issue loop (planner.py:433-477).
PlanIssue(st, issue, args) ==
    LET issue_type == issue.type
        is_editable == _is_editable_format(args.file_type)
        primary == issue_map(args.file_type, st.font)
        use_fallback == /\ is_editable
                        /\ issue_type \in args.failed_issue_types
                        /\ issue_type \in DOMAIN _DOCX_TO_PDF_FALLBACK
        lookup_key == IF use_fallback THEN issue_type
                      ELSE IF issue.suggested_fix \in DOMAIN primary
                      THEN issue.suggested_fix
                      ELSE issue_type
        found == use_fallback \/ lookup_key \in DOMAIN primary
        last_resort == ~found /\ is_editable /\ issue_type \in DOMAIN _DOCX_TO_PDF_FALLBACK
    IN  IF ~_severity_passes_filter(issue.severity, args.aggressiveness)
        THEN [st EXCEPT !.skipped = Append(@, <<issue_type, "severity below threshold",
                                                issue.severity>>)]
        ELSE IF use_fallback \/ last_resort
        THEN PlanTemplates(st, _DOCX_TO_PDF_FALLBACK[issue_type], 1, issue,
                           args.target_page_size)
        ELSE IF found
        THEN PlanTemplates(st, primary[lookup_key], 1, issue, args.target_page_size)
        ELSE [st EXCEPT !.skipped = Append(@, <<issue_type, "no fix available">>)]

RECURSIVE PlanIssues(_, _, _)
PlanIssues(st, k, args) ==
    IF k > Len(args.diagnosis) THEN st
    ELSE PlanIssues(PlanIssue(st, args.diagnosis[k], args), k + 1, args)

\* structural_tools (planner.py:481-496)
structural_tools ==
    {"set_margins", "set_page_size", "set_orientation", "remove_blank_pages",
     "fix_page_breaks", "remove_manual_breaks", "adjust_paragraph_indents",
     "pdf_crop_margins", "pdf_scale_content", "pdf_rotate_pages", "set_xlsx_margins",
     "set_xlsx_page_setup", "auto_fit_xlsx_columns", "resize_images_to_fit"}

\* The tool names of the maps in the order Python compares strings.
ToolNames ==
    <<"adjust_font_size", "adjust_paragraph_indents", "adjust_pptx_font_size",
      "auto_fit_tables", "auto_fit_xlsx_columns", "check_image_dpi",
      "convert_colorspace", "fix_page_breaks", "pdf_crop_margins", "pdf_rotate_pages",
      "pdf_scale_content", "remove_blank_pages", "replace_font", "resize_images_to_fit",
      "resize_table_text", "set_margins", "set_orientation", "set_page_size",
      "set_pptx_slide_size", "set_xlsx_margins", "set_xlsx_page_setup">>

ToolRank(tool_name) == CHOOSE i \in DOMAIN ToolNames : ToolNames[i] = tool_name

\* the sort key of planner.py:497-503 as one number
SortKey(a) ==
    (IF a.tool_name \in structural_tools THEN 0 ELSE 1) * 2 * (Len(ToolNames) + 1)
    + (IF a.is_fallback THEN 1 ELSE 0) * (Len(ToolNames) + 1)
    + ToolRank(a.tool_name)

\* list.sort is stable: an action goes behind the actions whose key is not greater
RECURSIVE SortActions(_)
SortActions(actions) ==
    IF actions = <<>> THEN <<>>
    ELSE LET n == Len(actions)
             front == SortActions(SubSeq(actions, 1, n - 1))
             last == actions[n]
             keep == {i \in DOMAIN front : SortKey(front[i]) <= SortKey(last)}
             at == Cardinality(keep)
         IN  SubSeq(front, 1, at) \o <<last>> \o SubSeq(front, at + 1, Len(front))

\* plan_fixes_rule_based (planner.py:401-510): the plan it returns and the
\* from_font it leaves in the replace_font template.
plan_fixes_rule_based(args, from_font) ==
    LET st == PlanIssues([actions |-> <<>>, seen_tools |-> {}, skipped |-> <<>>,
                          font |-> from_font], 1, args)
    IN  [plan |-> [job_id |-> "job", iteration |-> args.iteration,
                   actions |-> SortActions(st.actions),
                   skipped_issues |-> st.skipped],
         from_font |-> st.font]

\* most issues in a diagnosis, most calls of the planner with the same arguments
MaxIssues == 2

MaxPlanCalls == 2

\* DiagnosisIssue (schema/diagnosis.py:50-64): the fields the planner reads
DiagnosisIssue(type, severity, location, suggested_fix) ==
    [type |-> type, severity |-> severity, location |-> location,
     suggested_fix |-> suggested_fix]

Fonts == {"Courier", "Times"}

\* Issues of the model: types with a primary and a fallback tool
\* (margin_violation, inconsistent_margins, clipped_content), with a primary
\* tool only (non_embedded_font, small_font) and with none (orphan_widow);
\* the font issue with and without a location, one issue with a suggested_fix
\* that is a key of the issue map.
PlanIssueDomain ==
    {DiagnosisIssue("margin_violation", s, None, None) : s \in {"critical", "info"}}
    \cup {DiagnosisIssue("inconsistent_margins", "warning", None, None),
          DiagnosisIssue("clipped_content", "critical", None, None),
          DiagnosisIssue("orphan_widow", "critical", None, None),
          DiagnosisIssue("small_font", "warning", None, "margin_violation")}
    \cup {DiagnosisIssue("non_embedded_font", "critical", f, None) : f \in Fonts \cup {None}}

Aggressiveness == {"conservative", "moderate", "aggressive"}

PlanFileTypes == {".docx", ".xlsx", ".pdf"}

PlanFailedSets == {{}, {"margin_violation"}, {"margin_violation", "non_embedded_font"}}

PlanArgsOf(diagnosis, aggressiveness, file_type, failed_issue_types) ==
    [diagnosis |-> diagnosis, aggressiveness |-> aggressiveness, file_type |-> file_type,
     target_page_size |-> None, iteration |-> 1,
     failed_issue_types |-> failed_issue_types]

PlanArgs ==
    {PlanArgsOf(d, a, t, f) : d \in SeqsUpTo(PlanIssueDomain, MaxIssues),
                              a \in Aggressiveness, t \in PlanFileTypes,
                              f \in PlanFailedSets}

\* what other jobs of the same worker process ask the planner
OtherJobArgs ==
    {PlanArgsOf(<<DiagnosisIssue("non_embedded_font", "critical", f, None)>>,
                "moderate", ".docx", {}) : f \in Fonts}

InitPlan ==
    /\ PipeIdle
    /\ RenderIdle
    /\ LogIdle
    /\ ObsIdle
    /\ StopIdle
    /\ LoopIdle
    /\ ExecIdle
    /\ JobsIdle
    /\ RateIdle
    /\ RetryIdle
    /\ StoreIdle
    /\ FixIdle
    /\ pl_args \in PlanArgs
    /\ pl_font = ""
    /\ pl_plans = <<>>
    /\ pl_pc = "idle"
    /\ pl_ai = <<>>
    /\ pl_out = NoPlan

\* plan_fixes_rule_based is called with the arguments under study.
PlanCall ==
    /\ Len(pl_plans) < MaxPlanCalls
    /\ LET r == plan_fixes_rule_based(pl_args, pl_font)
       IN  /\ pl_plans' = Append(pl_plans, r.plan)
           /\ pl_font' = r.from_font
    /\ UNCHANGED <<pl_args, pl_pc, pl_ai, pl_out>>
    /\ UNCHANGED notPlanVars

\* plan_fixes_rule_based is called for another job; its plan goes to that job.
\* Calls after the last call under study are not followed.
PlanOtherJob ==
    /\ Len(pl_plans) < MaxPlanCalls
    /\ \E a \in OtherJobArgs : pl_font' = plan_fixes_rule_based(a, pl_font).from_font
    /\ UNCHANGED <<pl_args, pl_plans, pl_pc, pl_ai, pl_out>>
    /\ UNCHANGED notPlanVars

NextPlan ==
    \/ PlanCall
    \/ PlanOtherJob

SpecPlan == InitPlan /\ [][NextPlan]_vars

\* C21: two calls of the rule-based planner with the same diagnosis,
\* aggressiveness, file type and an empty failed-issue-type set return the
\* same actions in the same order and the same skipped list.
C21_Original ==
    pl_args.failed_issue_types = {} =>
        \A i, j \in DOMAIN pl_plans :
            /\ pl_plans[i].actions = pl_plans[j].actions
            /\ pl_plans[i].skipped_issues = pl_plans[j].skipped_issues

\* The issues of the arguments that pass the severity filter.
EligibleIssues ==
    {k \in DOMAIN pl_args.diagnosis :
        _severity_passes_filter(pl_args.diagnosis[k].severity, pl_args.aggressiveness)}

PlannedTargets(plan) ==
    {plan.actions[i].target_issues[n] :
        i \in DOMAIN plan.actions, n \in {1}}

\* C22: under aggressiveness moderate, for a diagnosis whose issues are all
\* critical or warning and all of types with a registered tool mapping, the
\* rule-based plan skips nothing and every issue's type appears in the
\* target_issues of at least one planned action.
C22_Original ==
    (/\ pl_args.aggressiveness = "moderate"
     /\ \A k \in DOMAIN pl_args.diagnosis :
            /\ pl_args.diagnosis[k].severity \in {"critical", "warning"}
            /\ pl_args.diagnosis[k].type \in DOMAIN issue_map(pl_args.file_type, pl_font))
    => \A c \in DOMAIN pl_plans :
            /\ pl_plans[c].skipped_issues = <<>>
            /\ \A k \in DOMAIN pl_args.diagnosis :
                   pl_args.diagnosis[k].type \in PlannedTargets(pl_plans[c])

\* The issue types the planner is to route to the fallback tools: eligible,
\* in failed_issue_types and with a fallback mapping.
FallbackRouted ==
    {pl_args.diagnosis[k].type : k \in EligibleIssues}
        \cap pl_args.failed_issue_types \cap DOMAIN _DOCX_TO_PDF_FALLBACK

HasAction(plan, template) ==
    \E i \in DOMAIN plan.actions :
        /\ plan.actions[i].tool_name = template.tool_name
        /\ plan.actions[i].params = template.params
        /\ plan.actions[i].is_fallback = template.is_fallback

C24_Original ==
    \A c \in DOMAIN pl_plans :
        \A i, j \in DOMAIN pl_plans[c].actions :
            (/\ pl_plans[c].actions[i].tool_name = pl_plans[c].actions[j].tool_name
             /\ pl_plans[c].actions[i].params = pl_plans[c].actions[j].params)
            => i = j

\* The issue types that reach the fallback tools as a last resort
\* (planner.py:451-455): eligible, with a fallback mapping, and neither the
\* suggested_fix nor the type is a key of the file type's issue map.
LastResort ==
    {pl_args.diagnosis[k].type :
        k \in {e \in EligibleIssues :
                 LET keys == DOMAIN issue_map(pl_args.file_type, pl_font)
                 IN  /\ pl_args.diagnosis[e].suggested_fix \notin keys
                     /\ pl_args.diagnosis[e].type \notin keys}}
        \cap DOMAIN _DOCX_TO_PDF_FALLBACK

notLoopObsVars ==
    <<stopVars, execVars, jobVars, rateVars, retryVars, storeVars, fixVars, planVars,
      logVars, renderVars, pipeVars>>

Observation(has_fallback_actions) ==
    [has_fallback_actions |-> has_fallback_actions, evaluated |-> FALSE,
     fallback_available |-> FALSE, failed_issue_types |-> {}]

\* orchestrator.py:90-122: the plan of the iteration and whether it holds a
\* fallback action.
FallbackPlan ==
    /\ LoopPlanStep
    /\ ob_trace' = Append(ob_trace,
           Observation(\E i \in DOMAIN lp_plan' : lp_plan'[i].is_fallback))
    /\ UNCHANGED notLoopObsVars

\* orchestrator.py:141-186: the record of the iteration and fallback_available.
FallbackReDiagnose ==
    /\ LoopReDiagnoseStep
    /\ ob_trace' = [ob_trace EXCEPT ![Len(ob_trace)] =
           [@ EXCEPT !.evaluated = TRUE,
                     !.fallback_available =
                         _has_untried_fallback(lp_cumulative, lp_history', lp_file_type),
                     !.failed_issue_types = lp_cumulative]]
    /\ UNCHANGED notLoopObsVars

NextFallback ==
    \/ LoopStart
    \/ LoopStartRaises
    \/ FallbackPlan
    \/ LoopEmptyPlan
    \/ LoopExecute
    \/ FallbackReDiagnose
    \/ LoopReDiagnoseRaises

SpecFallback == InitLoop /\ [][NextFallback]_vars

C30_Original ==
    \A i \in DOMAIN ob_trace :
        (ob_trace[i].has_fallback_actions /\ i <= Len(lp_history)) =>
            /\ lp_history[i].used_fallback
            /\ \A j \in DOMAIN ob_trace :
                   (j > i /\ ob_trace[j].evaluated) => ~ob_trace[j].fallback_available

\* ------------------------------------------------------------------------
\* C28, C29: the rules of should_stop, checked in SpecStop against a table of
\* the six conditions read on the last record (and the one before it).
\* ------------------------------------------------------------------------

\* The condition of rule k on the history's last record, k = 1..6 in the
\* order max-iterations, zero issues, zero critical and warning, all fixes
\* failed, empty plan, stalled.
CsStalled ==
    /\ Len(cs_states) >= 2
    /\ LET prev == cs_states[Len(cs_states) - 1]
       IN  /\ CsCurrent.critical_after + CsCurrent.warning_after
                >= prev.critical_after + prev.warning_after
           /\ CsCurrent.issues_after > prev.issues_after

RuleMet(k, m) ==
    CASE k = 1 -> CsCurrent.iteration >= m
      [] k = 2 -> CsCurrent.issues_after = 0
      [] k = 3 -> CsCurrent.critical_after = 0 /\ CsCurrent.warning_after = 0
      [] k = 4 -> CsCurrent.fixes_applied = 0 /\ CsCurrent.fixes_failed > 0
      [] k = 5 -> CsCurrent.fixes_applied = 0 /\ CsCurrent.fixes_failed = 0
      [] k = 6 -> CsStalled

\* What rule k decides: stop and the text of its reason.
RuleStop(k, fb) == IF k \in {4, 6} THEN ~fb ELSE TRUE

RuleText(k, fb) ==
    CASE k = 1 -> "max iterations reached"
      [] k = 2 -> "all issues resolved"
      [] k = 3 -> "no critical or warning issues remain"
      [] k = 4 -> IF fb THEN "" ELSE "all fixes failed, no progress possible"
      [] k = 5 -> "no applicable fixes found"
      [] k = 6 -> IF fb THEN "" ELSE "important issues did not decrease"

RulesMet(m) == {k \in 1..6 : RuleMet(k, m)}

FirstRule(m) == CHOOSE k \in RulesMet(m) : \A other \in RulesMet(m) : k <= other

\* C28: should_stop returns the decision and reason of the first rule, in the
\* order max-iterations, zero issues, zero critical and warning, all fixes
\* failed, empty plan, stalled, whose condition the last record meets; a later
\* rule never overrides an earlier one, and the result is (false, "") when no
\* rule applies or the history is empty.
C28_FirstRuleDecides ==
    \A m \in MaxIterationChoices, fb \in BOOLEAN :
        IF cs_states = <<>>
        THEN should_stop(cs_states, m, fb) = Verdict(FALSE, NoReason)
        ELSE IF RulesMet(m) = {}
        THEN CsVerdict(m, fb) = Verdict(FALSE, NoReason)
        ELSE /\ CsVerdict(m, fb).stop = RuleStop(FirstRule(m), fb)
             /\ CsVerdict(m, fb).reason.text = RuleText(FirstRule(m), fb)

\* The budget is used up and no issue is left: rules 1 and 2 are both met and
\* the reason is rule 1's.
C28_Witness ==
    /\ cs_states # <<>>
    /\ {1, 2} \subseteq RulesMet(QUICK_MAX_FIX_ITERATIONS)
    /\ CsVerdict(QUICK_MAX_FIX_ITERATIONS, FALSE).reason.text = "max iterations reached"
    /\ CsVerdict(STANDARD_MAX_FIX_ITERATIONS, FALSE).reason.text = "all issues resolved"

StallText == "important issues did not decrease"

C29_GrowthWithProgress ==
    /\ Len(cs_states) >= 2
    /\ RulesMet(STANDARD_MAX_FIX_ITERATIONS) = {}
    /\ CsCurrent.issues_after > cs_states[Len(cs_states) - 1].issues_after
    /\ CsCurrent.critical_after + CsCurrent.warning_after
         < cs_states[Len(cs_states) - 1].critical_after
           + cs_states[Len(cs_states) - 1].warning_after

\* ------------------------------------------------------------------------
\* SpecLog: record_fix (fixes/common.py:82-108) on one job's fixes.json.  It
\* reads the list, appends, writes the whole list and then calls
\* JobStateManager.set_state, awaiting between the steps.  Writer "run" is
\* execute_fix in the worker (executor.py:141-212), whose except clauses call
\* record_fix a second time; writer "tool" is a tool of the MCP server
\* (context/printfix.py:86-100), another process working on the same job.
\* ------------------------------------------------------------------------

\* most actions a writer executes
MaxLogActions == 2

\* The result of the writer's n-th action as record_fix is given it: by the
\* body of execute_fix or of the tool, or by an except clause of execute_fix.
LoggedResult(writer, n, success, from) ==
    [writer |-> writer, action |-> n, success |-> success, from |-> from]

InitLog ==
    /\ PipeIdle
    /\ RenderIdle
    /\ StopIdle
    /\ LoopIdle
    /\ ExecIdle
    /\ JobsIdle
    /\ RateIdle
    /\ RetryIdle
    /\ StoreIdle
    /\ FixIdle
    /\ PlanIdle
    /\ ObsIdle
    /\ LogIdle

\* executor.py:179 and context/printfix.py:99: an action has run and its
\* result goes to record_fix.
LogBegin(w) ==
    /\ lg_pc[w] = "idle"
    /\ lg_count[w] < MaxLogActions
    /\ lg_count' = [lg_count EXCEPT ![w] = @ + 1]
    /\ \E success \in BOOLEAN :
         lg_result' = [lg_result EXCEPT ![w] = LoggedResult(w, lg_count[w] + 1, success, "body")]
    /\ lg_pc' = [lg_pc EXCEPT ![w] = "read"]
    /\ UNCHANGED <<lg_file, lg_before, lg_existing>>
    /\ UNCHANGED notLogVars

\* fixes/common.py:88-92: the existing list is read (empty without a file).
LogRead(w) ==
    /\ lg_pc[w] = "read"
    /\ lg_existing' = [lg_existing EXCEPT ![w] = lg_file]
    /\ lg_pc' = [lg_pc EXCEPT ![w] = "write"]
    /\ UNCHANGED <<lg_file, lg_before, lg_result, lg_count>>
    /\ UNCHANGED notLogVars

\* fixes/common.py:94-97: the result is appended to the list read and the
\* list is written over the file.
LogWrite(w) ==
    /\ lg_pc[w] = "write"
    /\ lg_before' = lg_file
    /\ lg_file' = Append(lg_existing[w], lg_result[w])
    /\ lg_pc' = [lg_pc EXCEPT ![w] = "set_state"]
    /\ UNCHANGED <<lg_existing, lg_result, lg_count>>
    /\ UNCHANGED notLogVars

\* fixes/common.py:100-108: set_state returns and so does record_fix.
LogSetState(w) ==
    /\ lg_pc[w] = "set_state"
    /\ lg_pc' = [lg_pc EXCEPT ![w] = "idle"]
    /\ UNCHANGED <<lg_file, lg_before, lg_existing, lg_result, lg_count>>
    /\ UNCHANGED notLogVars

\* fixes/common.py:100-108: set_state raises (the Redis call fails).  In the
\* try block of execute_fix the except clause builds a failed result for the
\* same action and calls record_fix again (executor.py:200-210); from an
\* except clause, and from a tool, the exception leaves the call.
LogSetStateRaises(w) ==
    /\ lg_pc[w] = "set_state"
    /\ IF w = "run" /\ lg_result[w].from = "body"
       THEN /\ lg_result' = [lg_result EXCEPT ![w] =
                   LoggedResult(w, lg_count[w], FALSE, "except")]
            /\ lg_pc' = [lg_pc EXCEPT ![w] = "read"]
       ELSE /\ lg_result' = lg_result
            /\ lg_pc' = [lg_pc EXCEPT ![w] = "idle"]
    /\ UNCHANGED <<lg_file, lg_before, lg_existing, lg_count>>
    /\ UNCHANGED notLogVars

NextLog ==
    \/ \E w \in Writers : LogBegin(w)
    \/ \E w \in Writers : LogRead(w)
    \/ \E w \in Writers : LogWrite(w)
    \/ \E w \in Writers : LogSetState(w)
    \/ \E w \in Writers : LogSetStateRaises(w)

SpecLog == InitLog /\ [][NextLog]_vars

IsPrefix(p, q) == Len(p) <= Len(q) /\ SubSeq(q, 1, Len(p)) = p

\* The actions whose record_fix has written: all started ones but those
\* still before the first write.
LogWritten(w) ==
    {n \in 1..lg_count[w] :
        ~(n = lg_count[w] /\ lg_pc[w] \in {"read", "write"}
                          /\ lg_result[w].from = "body")}

LogEntries(w, n) ==
    {i \in DOMAIN lg_file : lg_file[i].writer = w /\ lg_file[i].action = n}

\* C27: the job's fix log is append-only: every executed action appends
\* exactly one FixResult, and the earlier log is a prefix of the later one,
\* so no recorded result is lost, changed or reordered.
C27_Original ==
    /\ IsPrefix(lg_before, lg_file)
    /\ \A w \in Writers : \A n \in LogWritten(w) :
           Cardinality(LogEntries(w, n)) = 1

\* The first half alone: a write of record_fix only adds to the end.
C27_PrefixKept == IsPrefix(lg_before, lg_file)

\* The second half alone, for the worker on its own log.
C27_OneResultPerAction ==
    \A n \in LogWritten("run") : Cardinality(LogEntries("run", n)) <= 1

\* ------------------------------------------------------------------------
\* SpecPlanAI: one planning step of plan_fixes (planner.py:686-723) with
\* plan_fixes_ai (planner.py:513-576) and _call_gemini (planner.py:589-614),
\* which sends the request through with_retry.
\* ------------------------------------------------------------------------

AI_API_MAX_RETRIES == 3

\* What one request to the model ends with: a text that parses as
\* PlannerFindings, a text that does not, an exception with_retry retries
\* (planner.py:612), another exception.
AiRetryable == {"TimeoutError", "ConnectionError"}
AiOutcomes == {"plan", "not a plan", "ValueError"} \cup AiRetryable

\* The plan made from the model's findings (planner.py:559-564).
AiPlan(args) ==
    [job_id |-> "job", iteration |-> args.iteration,
     actions |-> <<FixActionTemplate("set_margins", MarginParams("1.0"),
                                     "margin_violation", FALSE)>>,
     skipped_issues |-> <<>>]

AiArgsOf(diagnosis, aggressiveness, file_type, failed_issue_types, use_ai_planning) ==
    [diagnosis |-> diagnosis, aggressiveness |-> aggressiveness, file_type |-> file_type,
     target_page_size |-> None, iteration |-> 1,
     failed_issue_types |-> failed_issue_types, use_ai_planning |-> use_ai_planning]

\* Planning steps of the model: diagnoses of at most one issue, the three
\* aggressiveness levels and smart_auto, effort with and without AI planning.
AiArgs ==
    {AiArgsOf(d, a, t, f, u) :
        d \in {<<>>} \cup {<<i>> : i \in PlanIssueDomain},
        a \in Aggressiveness \cup {"smart_auto"}, t \in PlanFileTypes,
        f \in PlanFailedSets, u \in BOOLEAN}

InitPlanAI ==
    /\ PipeIdle
    /\ RenderIdle
    /\ StopIdle
    /\ LoopIdle
    /\ ExecIdle
    /\ JobsIdle
    /\ RateIdle
    /\ RetryIdle
    /\ StoreIdle
    /\ FixIdle
    /\ ObsIdle
    /\ LogIdle
    /\ pl_args \in AiArgs
    /\ pl_font = ""
    /\ pl_plans = <<>>
    /\ pl_pc = "plan_fixes"
    /\ pl_ai = <<>>
    /\ pl_out = NoPlan

\* planner.py:703
use_ai(args) == args.use_ai_planning \/ args.aggressiveness = "smart_auto"

\* The except clause of plan_fixes_ai returning an empty plan.
plan_fixes_ai_except_Empty(args, from_font) ==
    [plan |-> [job_id |-> "job", iteration |-> args.iteration, actions |-> <<>>,
               skipped_issues |-> <<>>],
     from_font |-> from_font]

\* planner.py:567-576: the except clause of plan_fixes_ai.
plan_fixes_ai_except(args, from_font) == plan_fixes_rule_based(args, from_font)

\* plan_fixes returns what the rule-based planner returns.
ReturnRuleBased(r) ==
    /\ pl_plans' = Append(pl_plans, r.plan)
    /\ pl_font' = r.from_font
    /\ pl_out' = r.plan
    /\ pl_pc' = "returned"

\* planner.py:716-723: no AI planning asked for.
PlanFixesRuleBased ==
    /\ pl_pc = "plan_fixes"
    /\ ~use_ai(pl_args)
    /\ ReturnRuleBased(plan_fixes_rule_based(pl_args, pl_font))
    /\ UNCHANGED <<pl_args, pl_ai>>
    /\ UNCHANGED notPlanVars

\* planner.py:705-714, 527-554: plan_fixes_ai builds the prompt.
PlanFixesAI ==
    /\ pl_pc = "plan_fixes"
    /\ use_ai(pl_args)
    /\ pl_pc' = "request"
    /\ UNCHANGED <<pl_args, pl_font, pl_plans, pl_ai, pl_out>>
    /\ UNCHANGED notPlanVars

\* One request of _call_gemini and what follows it without another request:
\* with_retry sleeps and asks again after a retryable exception while
\* attempts are left, the findings become the plan, and everything else
\* arrives in the except clause.
AiRequest ==
    /\ pl_pc = "request"
    /\ \E outcome \in AiOutcomes :
         /\ pl_ai' = Append(pl_ai, outcome)
         /\ IF outcome \in AiRetryable /\ Len(pl_ai) < AI_API_MAX_RETRIES
            THEN UNCHANGED <<pl_font, pl_plans, pl_pc, pl_out>>
            ELSE IF outcome = "plan"
            THEN /\ pl_out' = AiPlan(pl_args)
                 /\ pl_pc' = "returned"
                 /\ UNCHANGED <<pl_font, pl_plans>>
            ELSE ReturnRuleBased(plan_fixes_ai_except(pl_args, pl_font))
    /\ UNCHANGED pl_args
    /\ UNCHANGED notPlanVars

NextPlanAI ==
    \/ PlanFixesRuleBased
    \/ PlanFixesAI
    \/ AiRequest

SpecPlanAI == InitPlanAI /\ [][NextPlanAI]_vars

\* The AI planning call of the step has failed: its last request did not
\* bring a text that parses as a plan.
AiFailed ==
    /\ pl_pc = "returned"
    /\ pl_ai # <<>>
    /\ pl_ai[Len(pl_ai)] # "plan"

\* C26: when the AI planning call fails in any way (timeout after retries,
\* transport error, response that does not parse as a plan), plan_fixes
\* returns exactly the plan plan_fixes_rule_based gives for the same
\* arguments, and the AI call is not attempted again for that planning step:
\* the rule-based planner ran once, the failing request is the last one and
\* every request before it ended with an exception that with_retry retries.
C26_FallsBackToRuleBased ==
    AiFailed =>
        /\ pl_out = plan_fixes_rule_based(pl_args, "").plan
        /\ pl_plans = <<pl_out>>
        /\ Len(pl_ai) <= AI_API_MAX_RETRIES + 1
        /\ \A k \in 1..(Len(pl_ai) - 1) : pl_ai[k] \in AiRetryable
        /\ pl_ai[Len(pl_ai)] \in AiRetryable => Len(pl_ai) = AI_API_MAX_RETRIES + 1

\* The call timed out on every attempt and the rule-based plan, with an
\* action in it, came back.
C26_Witness ==
    /\ AiFailed
    /\ Len(pl_ai) = AI_API_MAX_RETRIES + 1
    /\ \A k \in DOMAIN pl_ai : pl_ai[k] = "TimeoutError"
    /\ pl_out.actions # <<>>
    /\ pl_out # AiPlan(pl_args)

\* ------------------------------------------------------------------------
\* SpecFailed: run_fix_loop (orchestrator.py:72-130) as in SpecLoop, with the
\* failed-issue-type sets of every iteration written down: the set handed to
\* plan_fixes (orchestrator.py:97), the actions whose result.success was
\* false, and the set execute_plan returned (orchestrator.py:125).
\* ------------------------------------------------------------------------

FailedObservation(passed) ==
    [passed |-> passed, executed |-> FALSE, failed_actions |-> {}, returned |-> {}]

\* orchestrator.py:90-98: plan_fixes is called with cumulative_failed_issue_types.
FailedPlan ==
    /\ LoopPlanStep
    /\ ob_trace' = Append(ob_trace, FailedObservation(lp_cumulative))
    /\ UNCHANGED notLoopObsVars

\* orchestrator.py:125-128: execute_plan and what it returned.
FailedExecute ==
    /\ \E success \in [1..Len(lp_plan) -> BOOLEAN] :
         /\ LoopExecuteStep(success)
         /\ ob_trace' = [ob_trace EXCEPT ![Len(ob_trace)] =
                [@ EXCEPT !.executed = TRUE,
                          !.failed_actions =
                              {lp_plan[i] : i \in {j \in DOMAIN lp_plan : ~success[j]}},
                          !.returned = lp_exec'.failed_issue_types]]
    /\ UNCHANGED notLoopObsVars

NextFailed ==
    \/ LoopStart
    \/ LoopStartRaises
    \/ FailedPlan
    \/ LoopEmptyPlan
    \/ FailedExecute
    \/ LoopReDiagnose
    \/ LoopReDiagnoseRaises

SpecFailed == InitLoop /\ [][NextFailed]_vars

\* The sets execute_plan returned in the iterations before iteration n.
ReturnedBefore(n) == UNION {ob_trace[k].returned : k \in 1..(n - 1)}

\* C31: execute_plan returns as failed-issue-type set exactly the union of
\* target_issues of the non-fallback actions that failed, and the set the
\* orchestrator passes to the planner in iteration n is the union of these
\* sets over iterations 1..n-1: it starts empty and only grows.
C31_FailedIssueTypes ==
    /\ \A n \in DOMAIN ob_trace :
         /\ ob_trace[n].passed = ReturnedBefore(n)
         /\ ob_trace[n].executed =>
                ob_trace[n].returned =
                    UNION {a.target_issues :
                               a \in {b \in ob_trace[n].failed_actions : ~b.is_fallback}}
         /\ \A m \in 1..n : ob_trace[m].passed \subseteq ob_trace[n].passed
    /\ ob_trace # <<>> => ob_trace[1].passed = {}
    /\ lp_pc = "plan" => lp_cumulative = ReturnedBefore(lp_iteration)

\* The planner of the third iteration was handed two issue types, one from
\* each of the iterations before it, and a failed fallback action of the second
\* iteration added nothing.
C31_Witness ==
    /\ Len(ob_trace) = 3
    /\ ob_trace[1].returned = {"margin_violation"}
    /\ ob_trace[2].returned = {"small_font"}
    /\ \E a \in ob_trace[2].failed_actions : a.is_fallback
    /\ ob_trace[3].passed = {"margin_violation", "small_font"}

\* ------------------------------------------------------------------------
\* SpecPlanOrder: plan_fixes_rule_based as in SpecPlan, called for documents
\* and slide decks whose issues bring margin, page-size, font, table and
\* image tools into one plan.
\* ------------------------------------------------------------------------

OrderIssueDomain ==
    {DiagnosisIssue("margin_violation", "critical", None, None),
     DiagnosisIssue("image_overflow", "critical", None, None),
     DiagnosisIssue("table_overflow", "critical", None, None),
     DiagnosisIssue("slide_size_mismatch", "critical", None, None),
     DiagnosisIssue("small_font", "warning", None, None)}

OrderArgs ==
    {PlanArgsOf(d, a, t, f) : d \in SeqsUpTo(OrderIssueDomain, MaxIssues),
                              a \in Aggressiveness, t \in {".docx", ".pptx"},
                              f \in {{}, {"margin_violation"}}}

InitPlanOrder ==
    /\ PipeIdle
    /\ RenderIdle
    /\ LogIdle
    /\ ObsIdle
    /\ StopIdle
    /\ LoopIdle
    /\ ExecIdle
    /\ JobsIdle
    /\ RateIdle
    /\ RetryIdle
    /\ StoreIdle
    /\ FixIdle
    /\ pl_args \in OrderArgs
    /\ pl_font = ""
    /\ pl_plans = <<>>
    /\ pl_pc = "idle"
    /\ pl_ai = <<>>
    /\ pl_out = NoPlan

SpecPlanOrder == InitPlanOrder /\ [][NextPlan]_vars

\* The two tiers as the specification words them: margins, page size,
\* orientation and break removal; fonts, tables and images.
StructuralAction(a) ==
    a.tool_name \in {"set_margins", "set_xlsx_margins", "pdf_crop_margins",
                     "set_page_size", "set_xlsx_page_setup", "set_pptx_slide_size",
                     "set_orientation", "pdf_rotate_pages",
                     "remove_blank_pages", "fix_page_breaks", "remove_manual_breaks"}

ContentAction(a) ==
    a.tool_name \in {"adjust_font_size", "adjust_pptx_font_size", "replace_font",
                     "auto_fit_tables", "resize_table_text", "auto_fit_xlsx_columns",
                     "resize_images_to_fit", "check_image_dpi"}

\* C34: in every rule-based plan all structural actions (margins, page size,
\* orientation, break removal) come before all content actions (fonts,
\* tables, images), and inside each of the two tiers every non-fallback
\* action comes before every fallback action.
C34_Original ==
    \A k \in DOMAIN pl_plans :
        LET actions == pl_plans[k].actions
        IN  \A i, j \in DOMAIN actions :
                i < j =>
                    /\ ~(ContentAction(actions[i]) /\ StructuralAction(actions[j]))
                    /\ (\/ StructuralAction(actions[i]) /\ StructuralAction(actions[j])
                        \/ ContentAction(actions[i]) /\ ContentAction(actions[j]))
                       => ~(actions[i].is_fallback /\ ~actions[j].is_fallback)

\* What the sort of planner.py:497-503 gives: the tools of structural_tools
\* first, inside each of its two groups non-fallback actions first.
C34_SortedByKey ==
    \A k \in DOMAIN pl_plans :
        LET actions == pl_plans[k].actions
        IN  \A i, j \in DOMAIN actions :
                i < j =>
                    LET si == actions[i].tool_name \in structural_tools
                        sj == actions[j].tool_name \in structural_tools
                    IN  /\ ~(~si /\ sj)
                        /\ si = sj => ~(actions[i].is_fallback /\ ~actions[j].is_fallback)

\* The font action of a slide deck placed before its slide-size action.
C34_FontBeforeSlideSize ==
    \A k \in DOMAIN pl_plans :
        LET actions == pl_plans[k].actions
        IN  ~(/\ Len(actions) = 2
              /\ actions[1].tool_name = "adjust_pptx_font_size"
              /\ actions[2].tool_name = "set_pptx_slide_size")

\* ------------------------------------------------------------------------
\* SpecRender: execute_fix (executor.py:138-186) on the two files of a job,
\* the uploaded file in original/ and pdf/reference.pdf, with the re-render
\* that follows a successful tool (fixes/common.py:55-79, rendering.py:29-74).
\* The tools write valid output here and record_fix returns.
\* ------------------------------------------------------------------------

\* TOOL_REGISTRY (executor.py:67-115): the second member of the entry.
is_pdf(tool_name) == tool_name = "pdf_crop_margins"

\* resolve_document (fixes/common.py:25-52): the uploaded file for an
\* editable format, else the reference PDF.
resolve_document(file_type) ==
    IF _is_editable_format(file_type) THEN "original" ELSE "reference.pdf"

\* convert_to_pdf (rendering.py:29-74, 152-161).  A PDF input is copied to
\* pdf/reference.pdf: when the input is that file, shutil.copy2 raises
\* SameFileError.  Any other input goes through LibreOffice, whose output
\* is renamed to pdf/reference.pdf.
convert_to_pdf(input, original, pdf, libreoffice) ==
    IF input = "reference.pdf"
    THEN [raised |-> TRUE, pdf |-> pdf]
    ELSE IF libreoffice = "ok"
    THEN [raised |-> FALSE, pdf |-> Pdf(original, {})]
    ELSE [raised |-> TRUE, pdf |-> pdf]

\* execute_fix for one action: the tool on the file chosen at lines 141-146,
\* then re_render_job when the tool succeeded.
RenderFix(action, file_type, original, pdf, tool, libreoffice) ==
    LET name == action.tool_name
        file_path == IF is_pdf(name) THEN "reference.pdf" ELSE resolve_document(file_type)
        original1 == IF tool = "ok" /\ file_path = "original"
                     THEN original \cup {name} ELSE original
        pdf1 == IF tool = "ok" /\ file_path = "reference.pdf"
                THEN Pdf(pdf.source, pdf.edits \cup {name}) ELSE pdf
        render == convert_to_pdf(resolve_document(file_type), original1, pdf1, libreoffice)
    IN  IF tool # "ok"
        THEN [result |-> ToolErrorResult(name), original |-> original, pdf |-> pdf]
        ELSE [result |-> IF render.raised THEN ExceptionResult(name)
                         ELSE ToolSuccessResult(name),
              original |-> original1, pdf |-> render.pdf]

InitRender ==
    /\ PipeIdle
    /\ StopIdle
    /\ LoopIdle
    /\ ExecIdle
    /\ JobsIdle
    /\ RateIdle
    /\ RetryIdle
    /\ StoreIdle
    /\ FixIdle
    /\ PlanIdle
    /\ ObsIdle
    /\ LogIdle
    /\ rn_pc = "run"
    /\ rn_file_type \in {".docx", ".pdf"}
    /\ rn_plan \in Plans \ {<<>>}
    /\ rn_index = 1
    /\ rn_original = {}
    /\ rn_pdf = Pdf({}, {})
    /\ rn_results = <<>>

\* executor.py:236-245: the next action of the plan goes through execute_fix.
RenderExecuteFix ==
    /\ rn_pc = "run"
    /\ rn_index <= Len(rn_plan)
    /\ \E tool \in {"ok", "fail"}, libreoffice \in {"ok", "fails"} :
         LET r == RenderFix(rn_plan[rn_index], rn_file_type, rn_original, rn_pdf,
                            tool, libreoffice)
         IN  /\ rn_original' = r.original
             /\ rn_pdf' = r.pdf
             /\ rn_results' = Append(rn_results, r.result)
    /\ rn_index' = rn_index + 1
    /\ UNCHANGED <<rn_pc, rn_file_type, rn_plan>>
    /\ UNCHANGED notRenderVars

\* executor.py:246
RenderReturn ==
    /\ rn_pc = "run"
    /\ rn_index > Len(rn_plan)
    /\ rn_pc' = "returned"
    /\ UNCHANGED <<rn_file_type, rn_plan, rn_index, rn_original, rn_pdf, rn_results>>
    /\ UNCHANGED notRenderVars

NextRender ==
    \/ RenderExecuteFix
    \/ RenderReturn

SpecRender == InitRender /\ [][NextRender]_vars

\* The latest execute_fix call ran a PDF-level tool on a job whose uploaded
\* file is of an editable format, and returned success.
RenderPdfFixSucceeded ==
    /\ rn_index > 1
    /\ _is_editable_format(rn_file_type)
    /\ is_pdf(rn_plan[rn_index - 1].tool_name)
    /\ rn_plan[rn_index - 1].is_fallback
    /\ rn_results[rn_index - 1].success

\* C37: after a successful, validated PDF-level (fallback) fix on an
\* editable-format job, the fix's change is still present in the job's
\* reference PDF once the action's re-render has finished: the re-render does
\* not replace the modified PDF with a fresh conversion of the unmodified
\* original document.
C37_Original ==
    RenderPdfFixSucceeded => rn_plan[rn_index - 1].tool_name \in rn_pdf.edits

\* What the re-render leaves: the reference PDF is always a conversion of
\* the uploaded file as the format tools left it, with no PDF-level change.
C37_PdfFixesLost ==
    RenderPdfFixSucceeded => rn_pdf = Pdf(rn_original, {})

\* On a PDF job no action returns success: the copy of reference.pdf onto
\* itself fails in every re-render.
C37_PdfJobRenderFails ==
    rn_file_type = ".pdf" => \A i \in DOMAIN rn_results : ~rn_results[i].success


\* ---------------------------------------------------------------------------
\* SpecPipeline: worker/tasks.py, the set_state calls of ingest_document,
\* diagnose_document and fix_document when nothing raises
\* ---------------------------------------------------------------------------
\* One job runs through the three tasks with no other task and no API call
\* beside it.  Each task is the list of its set_state calls: the call site,
\* the status it writes, and the call sites control can come from ("entry"
\* is the start of the task).  Everything between two calls that does not
\* raise leaves the status alone.

\* The record_fix calls one fix task makes at most.
MaxPipelineFixes == 2

\* ENABLE_REPAIR_ON_INGEST: bool = True   (core/config.py:84)
ENABLE_REPAIR_ON_INGEST == TRUE

\* ingest_document (tasks.py:145-220).  Line 163 is under
\* "if settings.ENABLE_REPAIR_ON_INGEST"; line 177 under "if not
\* integrity.valid" and "if repair_result.repaired".
ingest_document_calls ==
    { [site |-> "tasks.py:147", new_status |-> "ingesting",
       after |-> {"entry"}],
      [site |-> "tasks.py:155", new_status |-> "ingesting",
       after |-> {"tasks.py:147"}],
      [site |-> "tasks.py:163", new_status |-> "validating",
       after |-> IF ENABLE_REPAIR_ON_INGEST THEN {"tasks.py:155"} ELSE {}],
      [site |-> "tasks.py:177", new_status |-> "ingesting",
       after |-> {"tasks.py:163"}],
      [site |-> "tasks.py:189", new_status |-> "converting",
       after |-> IF ENABLE_REPAIR_ON_INGEST
                 THEN {"tasks.py:163", "tasks.py:177"}
                 ELSE {"tasks.py:155"}],
      [site |-> "tasks.py:194", new_status |-> "rendering",
       after |-> {"tasks.py:189"}],
      [site |-> "tasks.py:200", new_status |-> "ingested",
       after |-> {"tasks.py:194"}] }

\* diagnose_document (tasks.py:238-343).  _store_diagnosis writes "diagnosed"
\* at line 497 on the cache hit (260) and after the merge (307); lines
\* 327-337 are the branch for a diagnosis with no issue.
diagnose_document_calls ==
    { [site |-> "tasks.py:239", new_status |-> "diagnosing",
       after |-> {"entry"}],
      [site |-> "tasks.py:497", new_status |-> "diagnosed",
       after |-> {"tasks.py:239"}],
      [site |-> "tasks.py:327", new_status |-> "fixing",
       after |-> {"tasks.py:497"}],
      [site |-> "tasks.py:332", new_status |-> "verifying",
       after |-> {"tasks.py:327"}],
      [site |-> "tasks.py:337", new_status |-> "done",
       after |-> {"tasks.py:332"}] }

\* fix_document (tasks.py:52-110) with run_fix_loop inside it: for every
\* action re_render_job (common.py:68, after a tool that succeeded) and
\* record_fix (common.py:101), and after an iteration's actions the
\* re-diagnosis stored by orchestrator.py:344.
fix_document_calls ==
    { [site |-> "tasks.py:53", new_status |-> "fixing",
       after |-> {"entry"}],
      [site |-> "common.py:68", new_status |-> "fixing",
       after |-> {"tasks.py:53", "common.py:101", "orchestrator.py:344"}],
      [site |-> "common.py:101", new_status |-> "fixing",
       after |-> {"tasks.py:53", "common.py:68", "common.py:101",
                  "orchestrator.py:344"}],
      [site |-> "orchestrator.py:344", new_status |-> "fixing",
       after |-> {"common.py:101"}],
      [site |-> "tasks.py:67", new_status |-> "verifying",
       after |-> {"tasks.py:53", "common.py:101", "orchestrator.py:344"}],
      [site |-> "tasks.py:88", new_status |-> "done",
       after |-> {"tasks.py:67"}],
      [site |-> "tasks.py:98", new_status |-> "needs_review",
       after |-> {"tasks.py:67"}] }

\* JobStateManager.set_state (job_state.py:76-100) on the job's record: read
\* the status, warn when the transition is not in the table, write the new
\* status whatever the table says.
PipeSetState(c) ==
    /\ pp_site \in c.after
    /\ pp_site' = c.site
    /\ pp_status' = c.new_status
    /\ pp_writes' = Append(pp_writes,
           [site |-> c.site, current |-> pp_status, new_status |-> c.new_status])
    /\ pp_warnings' =
           IF IsInvalidTransition(pp_status, c.new_status)
           THEN Append(pp_warnings, <<pp_status, c.new_status>>)
           ELSE pp_warnings

\* The upload endpoint created the record with status "uploaded" and
\* enqueued ingest_document (api/printfix.py:131).
InitPipeline ==
    /\ pp_task = "ingest_document"
    /\ pp_site = "entry"
    /\ pp_status = "uploaded"
    /\ pp_writes = <<>>
    /\ pp_warnings = <<>>
    /\ pp_fixes = 0
    /\ StopIdle
    /\ LoopIdle
    /\ ExecIdle
    /\ JobsIdle
    /\ RateIdle
    /\ RetryIdle
    /\ StoreIdle
    /\ FixIdle
    /\ PlanIdle
    /\ LogIdle
    /\ ObsIdle
    /\ RenderIdle

\* The next set_state call of ingest_document.
PipeIngest ==
    /\ pp_task = "ingest_document"
    /\ \E c \in ingest_document_calls : PipeSetState(c)
    /\ UNCHANGED <<pp_task, pp_fixes>>
    /\ UNCHANGED notPipeVars

\* await diagnose_document.kiq(job_id=job_id)   (line 214), then the return.
PipeIngestDone ==
    /\ pp_task = "ingest_document"
    /\ pp_site = "tasks.py:200"
    /\ pp_task' = "diagnose_document"
    /\ pp_site' = "entry"
    /\ UNCHANGED <<pp_status, pp_writes, pp_warnings, pp_fixes>>
    /\ UNCHANGED notPipeVars

\* The next set_state call of diagnose_document.
PipeDiagnose ==
    /\ pp_task = "diagnose_document"
    /\ \E c \in diagnose_document_calls : PipeSetState(c)
    /\ UNCHANGED <<pp_task, pp_fixes>>
    /\ UNCHANGED notPipeVars

\* diagnose_document returns: on a cache hit right after _store_diagnosis
\* (line 261, nothing enqueued), with issues after enqueueing fix_document
\* (line 324), without issues after the write of "done" (line 337).
PipeDiagnoseDone ==
    /\ pp_task = "diagnose_document"
    /\ \/ /\ pp_site = "tasks.py:497"
          /\ \E cached \in BOOLEAN :
                 pp_task' = IF cached THEN "none" ELSE "fix_document"
       \/ /\ pp_site = "tasks.py:337"
          /\ pp_task' = "none"
    /\ pp_site' = "entry"
    /\ UNCHANGED <<pp_status, pp_writes, pp_warnings, pp_fixes>>
    /\ UNCHANGED notPipeVars

\* The next set_state call of fix_document.
PipeFix ==
    /\ pp_task = "fix_document"
    /\ \E c \in fix_document_calls :
           /\ PipeSetState(c)
           /\ c.site \in {"common.py:68", "common.py:101"} =>
                  pp_fixes < MaxPipelineFixes
           /\ pp_fixes' = IF c.site = "common.py:101"
                          THEN pp_fixes + 1 ELSE pp_fixes
    /\ UNCHANGED pp_task
    /\ UNCHANGED notPipeVars

\* fix_document returns after the write of "done" or "needs_review".
PipeFixDone ==
    /\ pp_task = "fix_document"
    /\ pp_site \in {"tasks.py:88", "tasks.py:98"}
    /\ pp_task' = "none"
    /\ pp_site' = "entry"
    /\ UNCHANGED <<pp_status, pp_writes, pp_warnings, pp_fixes>>
    /\ UNCHANGED notPipeVars

NextPipeline ==
    \/ PipeIngest
    \/ PipeIngestDone
    \/ PipeDiagnose
    \/ PipeDiagnoseDone
    \/ PipeFix
    \/ PipeFixDone

SpecPipeline == InitPipeline /\ [][NextPipeline]_vars

\* C38: in a failure-free run of the ingest, diagnose and fix tasks every
\* status the worker writes with set_state is an allowed transition from the
\* status the job held just before, so no invalid-transition warning is
\* logged.
C38_Original == pp_warnings = <<>>

\* What the tasks do: ingest_document logs the warning three times for a
\* sound file (ingesting to ingesting, ingesting to validating, validating
\* to converting) and, after a repair, validating to ingesting instead of
\* the third; "validating" is no key and no target of the table.
IngestWarnings ==
    { <<"ingesting", "ingesting">>, <<"ingesting", "validating">>,
      <<"validating", "converting">>, <<"validating", "ingesting">> }

C38_WarningsOnlyInIngest ==
    \A i \in 1..Len(pp_warnings) : pp_warnings[i] \in IngestWarnings

C38_IngestAlwaysWarns ==
    (pp_task # "ingest_document" \/ pp_site \in {"tasks.py:194", "tasks.py:200"})
        => Len(pp_warnings) = 3

\* A job that went through all three tasks to "done".
C38_ReachedDone ==
    /\ pp_task = "none"
    /\ pp_status = "done"
    /\ pp_fixes = MaxPipelineFixes


\* ------------------------------------------------------------------------
\* C39: failed is absorbing: once the job's status is "failed" no worker
\* task and no API operation changes it again.
\* ------------------------------------------------------------------------
C39_Original == [][jb_status = "failed" => jb_status' = "failed"]_vars

\* The API half holds: no handler accepts a job whose status is "failed",
\* so a request never changes that status nor enqueues a task for it.
C39_ApiKeepsFailed ==
    [][(jb_status = "failed" /\ jb_triggers' # jb_triggers)
           => (jb_status' = "failed" /\ jb_queue' = jb_queue)]_vars


\* ------------------------------------------------------------------------
\* C40 (SpecStore): after delete_job the job's record stays absent until
\* create_job is called for the id again; no set_state of a task that is
\* still running for the job brings a record back.
\* ------------------------------------------------------------------------
C40_Original == st_deleted => st_hash = EmptyHash

\* What set_state does after a delete: hset creates the key again, holding
\* only the fields of the update (status, updated_at and the error), without
\* created_at and without an expiry.
C40_RecreatedRecord ==
    (st_deleted /\ st_hash # EmptyHash)
        => /\ ~StoreCreatedRecord
           /\ st_expiry = NoExpiry
           /\ st_last.op = "set_state"
           /\ hget_status(st_hash) = st_last.new_status

\* delete_job itself removes the record: right after it the record is gone
\* whatever calls are in progress.
C40_DeleteRemoves == [][st_deleted' /\ ~st_deleted => st_hash' = EmptyHash]_vars

====
